---- MODULE Spec2Model ----
(***************************************************************************)
(* A model of claude-monitor: the state classifier and its hysteresis      *)
(* state machine (src/src/detection/state_detector.py), the recovery       *)
(* engine (src/obsolete/src/recovery/recovery_engine.py) and the decision  *)
(* orchestrator with its bootstrap timers                                  *)
(* (src/obsolete/src/decision/decision_engine.py,                          *)
(*  src/src/session/bootstrap_manager.py,                                  *)
(*  src/src/orchestration/monitor_loop.py).                                *)
(*                                                                         *)
(* Time.  The code compares wall-clock differences `now - stamp` with      *)
(* thresholds given in seconds.  The model keeps, for every time stamp of  *)
(* the code, the number of whole seconds elapsed since the stamp was       *)
(* taken (its age); Tick lets one second pass.  An age stops growing at a  *)
(* cap that is at least every threshold it is compared with, so every      *)
(* comparison of the code has the value it has in the code.                *)
(*                                                                         *)
(* Confidence.  Scores and confidences are kept in thousandths: 600 is the *)
(* confidence 0.6.                                                         *)
(***************************************************************************)
EXTENDS Integers, Sequences, FiniteSets, TLC

None == "none"

Min(a, b) == IF a <= b THEN a ELSE b
Max(a, b) == IF a >= b THEN a ELSE b

(* The age of a time stamp that was never set. *)
Never == -1

(* An age after one more second, saturating at cap; Never stays Never. *)
Older(age, cap) == IF age = Never THEN Never ELSE Min(age + 1, cap)

(* No StateDetection (Python None). *)
NoDetection == [state |-> None, confidence |-> 0, evidence |-> None]


(***************************************************************************)
(* ClaudeState and the detector's configuration                            *)
(***************************************************************************)
UNKNOWN == "unknown"
IDLE == "idle"
INPUT_WAITING == "input-waiting"
CONTEXT_PRESSURE == "context-pressure"
ERROR == "error"
ACTIVE == "active"
COMPLETED == "completed"

ClaudeState ==
    {UNKNOWN, IDLE, INPUT_WAITING, CONTEXT_PRESSURE, ERROR, ACTIVE, COMPLETED}

MinConfidence == 600
DebounceTime == 2
InputTimeout == 5
ActiveDecayAfter == 5
(* idle_timeout as configured for the model (the default is 30 seconds);  *)
(* like the default it is larger than the two five-second thresholds.     *)
IdleTimeout == 6
(* LogContext.max_lines and state_history_limit as configured here. *)
MaxLines == 1
StateHistoryLimit == 1
RecentLinesCount == 20
RecentTextLines == 5

(***************************************************************************)
(* Log lines.  A line is one of a few representative texts; what the       *)
(* classifier reads of a line is what its regular expressions find in it.  *)
(*   prompt   ">"                                                          *)
(*   yesno    "Continue? [y/n]"                                            *)
(*   ask      "Which file should I edit?"                                  *)
(*   usage92  "Context usage: 92%"                                         *)
(*   usage85  "Memory used: 85%"                                           *)
(*   error    "Error: failed to connect"                                   *)
(*   working  "Processing files"                                           *)
(*   done     "Task completed successfully"                                *)
(***************************************************************************)
LineKinds ==
    {"prompt", "yesno", "ask", "usage92", "usage85", "error", "working", "done"}

PatternNames ==
    <<"idle", "input_waiting", "context_pressure", "error", "active", "completed">>

(* 'weight' of each pattern group, in thousandths. *)
Weight(name) ==
    CASE name = "idle" -> 1000
      [] name = "input_waiting" -> 1200
      [] name = "context_pressure" -> 1500
      [] name = "error" -> 1300
      [] name = "active" -> 800
      [] name = "completed" -> 900

(* Sum over the group's 'patterns' of len(pattern.findall(line)). *)
FindAll(name, kind) ==
    CASE name = "idle" /\ kind = "prompt" -> 1
      [] name = "input_waiting" /\ kind = "yesno" -> 2
      [] name = "context_pressure" /\ kind \in {"usage92", "usage85"} -> 1
      [] name = "error" /\ kind = "error" -> 2
      [] name = "active" /\ kind = "working" -> 1
      [] name = "completed" /\ kind = "done" -> 3
      [] OTHER -> 0

(* The 'negative_patterns' of a group (by position) that the line matches. *)
NegativeHits(name, kind) ==
    CASE name = "idle" /\ kind = "error" -> {1}
      [] name = "idle" /\ kind = "working" -> {3}
      [] OTHER -> {}

(* The largest number before a percent sign in the line, 0 when none. *)
Percent(kind) ==
    CASE kind = "usage92" -> 92
      [] kind = "usage85" -> 85
      [] OTHER -> 0

(* Whether the line ends in a question mark (question_pattern). *)
QuestionMark(kind) == kind = "ask"

(* len(re.findall(r'\b(?:error|exception|failed)\b', line)). *)
ErrorKeywords(kind) == IF kind = "error" THEN 2 ELSE 0

RECURSIVE SumOver(_, _)
SumOver(f, s) == IF s = <<>> THEN 0 ELSE f[Head(s)] + SumOver(f, Tail(s))

LastN(s, n) == IF Len(s) <= n THEN s ELSE SubSeq(s, Len(s) - n + 1, Len(s))

SeqRange(s) == {s[i] : i \in DOMAIN s}

(***************************************************************************)
(* StateDetector: scoring                                                  *)
(***************************************************************************)
_score_context_pressure(lines) ==
    LET pcts == {Percent(k) : k \in SeqRange(lines)}
        max_percent == CHOOSE p \in pcts : \A q \in pcts : q <= p
    IN  IF pcts = {} THEN 0
        ELSE IF max_percent >= 90 THEN 600
        ELSE IF max_percent >= 80 THEN 400
        ELSE 0

_score_input_waiting(recent) ==
    IF \E k \in SeqRange(recent) : QuestionMark(k) THEN 300 ELSE 0

_score_error_state(lines) ==
    LET error_count == SumOver([k \in LineKinds |-> ErrorKeywords(k)], lines)
    IN  IF error_count > 1 THEN Min(error_count * 100, 300) ELSE 0

(* time_since_last is the age of the last line's time stamp. *)
_score_idle_state(lines, time_since_last) ==
    IF lines = <<>> THEN 0
    ELSE IF time_since_last >= IdleTimeout
         THEN (Min((time_since_last * 1000) \div IdleTimeout, 1000) * 5) \div 10
         ELSE 0

_score_state(name, lines, time_since_last) ==
    LET recent == LastN(lines, RecentTextLines)
        matches == SumOver([k \in LineKinds |-> FindAll(name, k)], recent)
        negatives == UNION {NegativeHits(name, k) : k \in SeqRange(recent)}
        base == (matches * 3 * Weight(name)) \div 10
                  - Cardinality(negatives) * (Weight(name) \div 5)
        special == CASE name = "context_pressure" -> _score_context_pressure(lines)
                     [] name = "input_waiting" -> _score_input_waiting(recent)
                     [] name = "error" -> _score_error_state(lines)
                     [] name = "idle" -> _score_idle_state(lines, time_since_last)
                     [] OTHER -> 0
    IN  Max(base + special, 0)

_apply_timeout_scoring(scores, lines, time_since_last, current) ==
    IF lines = <<>> THEN scores
    ELSE [name \in DOMAIN scores |->
            CASE name = "idle" ->
                   IF time_since_last > IdleTimeout
                   THEN scores[name] + 300 ELSE scores[name]
              [] name = "active" ->
                   IF time_since_last > ActiveDecayAfter
                   THEN (scores[name] * 5) \div 10 ELSE scores[name]
              [] name = "input_waiting" ->
                   IF current = INPUT_WAITING /\ time_since_last > InputTimeout
                   THEN (scores[name] * 7) \div 10 ELSE scores[name]
              [] OTHER -> scores[name]]

state_mapping(name) ==
    CASE name = "idle" -> IDLE
      [] name = "input_waiting" -> INPUT_WAITING
      [] name = "context_pressure" -> CONTEXT_PRESSURE
      [] name = "error" -> ERROR
      [] name = "active" -> ACTIVE
      [] name = "completed" -> COMPLETED
      [] OTHER -> UNKNOWN

(* max(state_scores, key=state_scores.get): the first group, in the order *)
(* of the pattern table, that has the highest score.                      *)
BestStateName(scores) ==
    LET i == CHOOSE i \in DOMAIN PatternNames :
                 /\ \A j \in DOMAIN PatternNames :
                        scores[PatternNames[j]] <= scores[PatternNames[i]]
                 /\ \A j \in 1..(i - 1) :
                        scores[PatternNames[j]] < scores[PatternNames[i]]
    IN  PatternNames[i]

(* ClampConfidence without the clamp: the winning score is passed on as is. *)
ClampConfidence_unclamped(best_score) == best_score

(* The confidence handed to the StateDetection constructor. *)
ClampConfidence(best_score) == Min(best_score, 1000)

StateDetection(state, confidence, evidence) ==
    [state |-> state, confidence |-> confidence, evidence |-> evidence]

(* _analyze_lines without the retention of the previous state: a winning  *)
(* score below the minimum confidence gives UNKNOWN.                       *)
_analyze_lines_no_retention(lines, time_since_last, current) ==
    LET raw == [name \in SeqRange(PatternNames) |->
                   _score_state(name, lines, time_since_last)]
        state_scores == _apply_timeout_scoring(raw, lines, time_since_last, current)
        best_state_name == BestStateName(state_scores)
        best_score == state_scores[best_state_name]
        best_state == IF best_score < MinConfidence THEN UNKNOWN
                      ELSE state_mapping(best_state_name)
    IN  StateDetection(best_state, ClampConfidence(best_score), best_state_name)

(* evidence is the evidence list of the winning pattern group; for a given *)
(* context and clock it is determined by the name of that group.           *)
_analyze_lines(lines, time_since_last, current) ==
    LET raw == [name \in SeqRange(PatternNames) |->
                   _score_state(name, lines, time_since_last)]
        state_scores == _apply_timeout_scoring(raw, lines, time_since_last, current)
        best_state_name == BestStateName(state_scores)
        best_score == state_scores[best_state_name]
        low == best_score < MinConfidence
        best_state == IF low
                      THEN (IF current # UNKNOWN THEN current ELSE UNKNOWN)
                      ELSE state_mapping(best_state_name)
        score == IF low /\ current # UNKNOWN THEN Max(best_score, 300)
                 ELSE best_score
    IN  StateDetection(best_state, ClampConfidence(score), best_state_name)

(***************************************************************************)
(* StateDetector: the hysteresis state machine                             *)
(***************************************************************************)
VARIABLES
    context,            \* LogContext._lines: the kinds of the buffered lines
    line_age,           \* seconds since the time stamp of the last line
    current_state,      \* StateDetector._current_state
    last_detection,     \* StateDetector._last_detection
    state_change_age,   \* seconds since StateDetector._last_state_change
    state_history,      \* StateDetector._state_history
    detection,          \* the StateDetection detect_state returned last
    since_transition,   \* seconds since the last recorded transition, or Never
    just_detected       \* the last step was a detect_state call

detVars == <<context, line_age, current_state, last_detection, state_change_age,
             state_history, detection, since_transition, just_detected>>

LineAgeCap == IdleTimeout + 1

priority_map(state) ==
    CASE state = CONTEXT_PRESSURE -> 4
      [] state = INPUT_WAITING -> 3
      [] state = ERROR -> 2
      [] state \in {IDLE, ACTIVE, COMPLETED} -> 1
      [] OTHER -> 0

(* _should_change_state without its debounce test. *)
_should_change_state_no_debounce(d, current, time_since_change) ==
    IF current = UNKNOWN THEN d.confidence >= MinConfidence
    ELSE IF d.confidence < MinConfidence THEN FALSE
    ELSE IF d.state = current THEN FALSE
    ELSE IF priority_map(d.state) > priority_map(current) THEN d.confidence >= 500
    ELSE IF priority_map(d.state) = priority_map(current) THEN d.confidence >= 700
    ELSE d.confidence >= 800

(* _should_change_state asking 0.8 of an equal-priority candidate too. *)
_should_change_state_equal_as_lower(d, current, time_since_change) ==
    IF current = UNKNOWN THEN d.confidence >= MinConfidence
    ELSE IF d.confidence < MinConfidence THEN FALSE
    ELSE IF d.state = current THEN FALSE
    ELSE IF time_since_change < DebounceTime THEN FALSE
    ELSE IF priority_map(d.state) > priority_map(current) THEN d.confidence >= 500
    ELSE d.confidence >= 800

(* _should_change_state; time_since_change is now - _last_state_change. *)
_should_change_state(d, current, time_since_change) ==
    IF current = UNKNOWN THEN d.confidence >= MinConfidence
    ELSE IF d.confidence < MinConfidence THEN FALSE
    ELSE IF d.state = current THEN FALSE
    ELSE IF time_since_change < DebounceTime THEN FALSE
    ELSE IF priority_map(d.state) > priority_map(current) THEN d.confidence >= 500
    ELSE IF priority_map(d.state) = priority_map(current) THEN d.confidence >= 700
    ELSE d.confidence >= 800

(* A StateTransition; its time stamp is kept as the seconds since the      *)
(* previous recorded transition (Never for the first one).                *)
StateTransition(from_state, to_state, d, elapsed) ==
    [from_state |-> from_state, to_state |-> to_state,
     confidence |-> d.confidence, elapsed |-> elapsed]

(* _state_history after _change_state appended the transition. *)
RecordTransition(history, transition) ==
    LET appended == Append(history, transition)
    IN  IF Len(appended) > StateHistoryLimit THEN Tail(appended) ELSE appended

(* The tail of detect_state: ask _should_change_state, _change_state when  *)
(* it says so, remember the detection, return it.                          *)
ApplyDetection(d) ==
    LET should_change == _should_change_state(d, current_state, state_change_age)
    IN  /\ IF should_change
           THEN /\ current_state' = d.state
                /\ state_change_age' = 0
                /\ since_transition' = 0
                /\ state_history' = RecordTransition(state_history,
                       StateTransition(current_state, d.state, d,
                                       since_transition))
           ELSE UNCHANGED <<current_state, state_change_age, since_transition,
                            state_history>>
        /\ last_detection' = d
        /\ detection' = d

(* LogContext.add_line: a deque with maxlen = max_lines. *)
(* deque(maxlen=max_lines).append *)
deque_append_unbounded(lines, line, maxlen) == Append(lines, line)

deque_append(lines, line, maxlen) ==
    LET appended == Append(lines, line)
    IN  IF Len(appended) > maxlen THEN Tail(appended) ELSE appended

add_line(lines, kind) == deque_append(lines, kind, MaxLines)

AddLine(kind) ==
    /\ context' = add_line(context, kind)
    /\ line_age' = 0
    /\ just_detected' = FALSE
    /\ UNCHANGED <<current_state, last_detection, state_change_age, state_history,
                   detection, since_transition>>

NoData == StateDetection(UNKNOWN, 0, "No log lines available")

detect_state ==
    LET recent_lines == LastN(context, RecentLinesCount)
        d == IF recent_lines = <<>> THEN NoData
             ELSE _analyze_lines(recent_lines, line_age, current_state)
    IN  /\ ApplyDetection(d)
        /\ just_detected' = TRUE
        /\ UNCHANGED <<context, line_age>>

(* detect_state when the analysis raises: the except branch returns an     *)
(* UNKNOWN detection and the detector's state is left as it was.           *)
detect_state_error ==
    /\ detection' = StateDetection(UNKNOWN, 0, "Detection error")
    /\ just_detected' = FALSE
    /\ UNCHANGED <<context, line_age, current_state, last_detection,
                   state_change_age, state_history, since_transition>>

reset_state ==
    /\ current_state' = UNKNOWN
    /\ last_detection' = NoDetection
    /\ state_change_age' = 0
    /\ just_detected' = FALSE
    /\ UNCHANGED <<context, line_age, state_history, detection, since_transition>>

DetTick ==
    /\ line_age' = Older(line_age, LineAgeCap)
    /\ state_change_age' = Older(state_change_age, DebounceTime)
    /\ since_transition' = Older(since_transition, DebounceTime)
    /\ just_detected' = FALSE
    /\ UNCHANGED <<context, current_state, last_detection, state_history,
                   detection>>

DetInit ==
    /\ context = <<>>
    /\ line_age = Never
    /\ current_state = UNKNOWN
    /\ last_detection = NoDetection
    /\ state_change_age = 0
    /\ state_history = <<>>
    /\ detection = NoDetection
    /\ since_transition = Never
    /\ just_detected = FALSE

(* A detection handed to the state machine: any state the classifier can   *)
(* name at any of a few confidences around the thresholds; the classifier  *)
(* names UNKNOWN only below the minimum confidence.                        *)
ConfidenceLevels == {500, 600, 700, 800}

DetectionInputs ==
    {d \in [state : ClaudeState, confidence : ConfidenceLevels, evidence : {"fed"}] :
        d.state = UNKNOWN => d.confidence < MinConfidence}

FeedDetection ==
    \E d \in DetectionInputs :
        /\ ApplyDetection(d)
        /\ just_detected' = TRUE
        /\ UNCHANGED <<context, line_age>>

(***************************************************************************)
(* Recovery engine (obsolete/src/recovery/recovery_engine.py)              *)
(***************************************************************************)
(* Configuration of the engine in the model. *)
CooldownPeriod == 2
ExecutionHistoryLimit == 1

(* RecoveryEngine.config, of which the model reads two keys. *)
VARIABLE engine_config

EngineConfig(execution_history_limit, require_confirmation) ==
    [execution_history_limit |-> execution_history_limit,
     require_confirmation_for_destructive_actions |-> require_confirmation]

(* Threads that call execute_recovery, and the workers they may have      *)
(* started that are still running.                                        *)
Threads == {"log_callback", "main_loop"}
MaxWorkers == 2

COMPACT == "compact"
PROVIDE_INPUT == "provide_input"
RESUME_INPUT == "resume_input"
CLEAR_ERROR == "clear_error"
RESTART_SESSION == "restart_session"
NOTIFY_USER == "notify_user"

RecoveryAction(action_type, target_state, priority, requires_confirmation) ==
    [action_type |-> action_type, target_state |-> target_state,
     priority |-> priority, requires_confirmation |-> requires_confirmation]

NoAction == RecoveryAction(None, None, 0, FALSE)

(* sorted(actions, key=priority, reverse=True): a stable insertion sort. *)
RECURSIVE InsertByPriority(_, _)
InsertByPriority(sorted, action) ==
    IF sorted = <<>> THEN <<action>>
    ELSE IF Head(sorted).priority >= action.priority
         THEN <<Head(sorted)>> \o InsertByPriority(Tail(sorted), action)
         ELSE <<action>> \o sorted

RECURSIVE SortByPriority(_)
SortByPriority(actions) ==
    IF actions = <<>> THEN <<>>
    ELSE InsertByPriority(SortByPriority(SubSeq(actions, 1, Len(actions) - 1)),
                          actions[Len(actions)])

RecoveryStrategy(name, target_states, actions, conditions) ==
    [name |-> name, target_states |-> target_states,
     actions |-> SortByPriority(actions), conditions |-> conditions]

NoConditions == [key \in {} |-> TRUE]

context_pressure_actions ==
    <<RecoveryAction(COMPACT, IDLE, 8, FALSE),
      RecoveryAction(NOTIFY_USER, CONTEXT_PRESSURE, 5, FALSE)>>

input_waiting_actions ==
    <<RecoveryAction(PROVIDE_INPUT, INPUT_WAITING, 7, FALSE),
      RecoveryAction(RESUME_INPUT, INPUT_WAITING, 6, FALSE),
      RecoveryAction(NOTIFY_USER, INPUT_WAITING, 4, FALSE)>>

error_actions ==
    <<RecoveryAction(CLEAR_ERROR, IDLE, 6, FALSE),
      RecoveryAction(RESTART_SESSION, IDLE, 4, TRUE),
      RecoveryAction(NOTIFY_USER, ERROR, 8, FALSE)>>

idle_actions == <<RecoveryAction(NOTIFY_USER, IDLE, 2, FALSE)>>

idle_prompt_actions == <<RecoveryAction(PROVIDE_INPUT, IDLE, 9, FALSE)>>

idle_clear_actions == <<RecoveryAction(CLEAR_ERROR, IDLE, 10, FALSE)>>

(* The strategies of _init_default_strategies, in registration order. *)
_strategies ==
    <<RecoveryStrategy("context_pressure_recovery", {CONTEXT_PRESSURE},
                       context_pressure_actions, NoConditions),
      RecoveryStrategy("input_waiting_recovery", {INPUT_WAITING},
                       input_waiting_actions, NoConditions),
      RecoveryStrategy("error_recovery", {ERROR}, error_actions, NoConditions),
      RecoveryStrategy("idle_maintenance", {IDLE}, idle_actions,
                       [idle_duration_minutes |-> "30"]),
      RecoveryStrategy("idle_prompt", {IDLE}, idle_prompt_actions,
                       [should_send_idle_prompt |-> "True"]),
      RecoveryStrategy("idle_clear", {IDLE}, idle_clear_actions,
                       [should_send_idle_clear |-> "True"])>>

(* Recovery contexts: a dict with the keys its caller put in.  The        *)
(* evidence is kept as whether its text holds a yes/no indicator.         *)
PlainContext(evidence) == [detection_evidence |-> evidence]
ClearContext(evidence) ==
    [detection_evidence |-> evidence, should_send_idle_clear |-> "True"]
PromptContext(evidence) ==
    [detection_evidence |-> evidence, should_send_idle_prompt |-> "True"]

(* context.get(key), None when the key is missing. *)
Get(ctx, key) == IF key \in DOMAIN ctx THEN ctx[key] ELSE None

matches_context(strategy, state, ctx) ==
    /\ state \in strategy.target_states
    /\ \A key \in DOMAIN strategy.conditions :
          key \in DOMAIN ctx /\ ctx[key] = strategy.conditions[key]

NoStrategy == [name |-> None, target_states |-> {}, actions |-> <<>>,
               conditions |-> NoConditions]

(* The first strategy for the state, whatever the context. *)
_find_best_strategy_any_context(state, ctx) ==
    LET matching_strategies ==
            SelectSeq(_strategies, LAMBDA strategy : state \in strategy.target_states)
    IN  IF matching_strategies = <<>> THEN NoStrategy ELSE Head(matching_strategies)

(* The first matching strategy. *)
_find_best_strategy(state, ctx) ==
    LET matching_strategies ==
            SelectSeq(_strategies,
                      LAMBDA strategy : matches_context(strategy, state, ctx))
    IN  IF matching_strategies = <<>> THEN NoStrategy ELSE Head(matching_strategies)

_can_confirm_action(action, ctx) ==
    ~engine_config.require_confirmation_for_destructive_actions

(* _select_best_action without its gates. *)
_select_best_action_ungated(strategy, ctx) ==
    IF strategy.actions = <<>> THEN NoAction ELSE Head(strategy.actions)

(* The actions _select_best_action does not skip, best first. *)
_select_best_action(strategy, ctx) ==
    LET skipped(action) ==
            \/ action.requires_confirmation /\ ~_can_confirm_action(action, ctx)
            \/ /\ action.action_type = PROVIDE_INPUT
               /\ Get(ctx, "should_send_idle_prompt") # "True"
               /\ Get(ctx, "detection_evidence") # "yesno"
        kept == SelectSeq(strategy.actions, LAMBDA action : ~skipped(action))
    IN  IF kept = <<>> THEN NoAction ELSE Head(kept)

VARIABLES
    enabled,            \* RecoveryEngine._enabled
    executing,          \* RecoveryEngine._executing
    current_execution,  \* RecoveryEngine._current_execution
    workers,            \* the executions whose worker thread is running
    execution_history,  \* RecoveryEngine._execution_history
    calls               \* per thread: the execute_recovery call that passed
                        \* its checks and has not entered _execute_action yet

engVars == <<engine_config, enabled, executing, current_execution, workers,
            execution_history, calls>>

SUCCESS == "success"
FAILURE == "failure"
RecoveryResult == {SUCCESS, FAILURE}

(* The end of the latest execution on record that was dispatched for the  *)
(* detected state, as its age; Never when there is none.                   *)
SincePreviousEnd(state) ==
    LET same == {i \in DOMAIN execution_history :
                    execution_history[i].detected = state}
    IN  IF same = {} THEN Never
        ELSE execution_history[CHOOSE i \in same : \A j \in same : j <= i].end_age

(* A RecoveryExecution: its action, and of its metadata the detected      *)
(* state.                                                                  *)
RecoveryExecution(action, state, ctx) ==
    [action_type |-> action.action_type, target_state |-> action.target_state,
     detected |-> state]

NoExecution == [action_type |-> None, target_state |-> None, detected |-> None]

NoCall == [action |-> NoAction, state |-> None, ctx |-> PlainContext(None)]

_is_in_cooldown(state) ==
    LET same == {i \in DOMAIN execution_history :
                    execution_history[i].target_state = state}
    IN  /\ same # {}
        /\ execution_history[CHOOSE i \in same : \A j \in same : j <= i].end_age
               < CooldownPeriod

(* execute_recovery up to its last line: the action it goes on to execute, *)
(* NoAction where it returns None.                                         *)
execute_recovery(state, ctx) ==
    IF ~enabled THEN NoAction
    ELSE IF executing THEN NoAction
    ELSE LET strategy == _find_best_strategy(state, ctx)
         IN  IF strategy = NoStrategy THEN NoAction
             ELSE LET action == _select_best_action(strategy, ctx)
                      bypass_cooldown ==
                          \/ Get(ctx, "should_send_idle_prompt") = "True"
                          \/ action.action_type = PROVIDE_INPUT
                  IN  IF action = NoAction THEN NoAction
                      ELSE IF ~bypass_cooldown /\ _is_in_cooldown(state) THEN NoAction
                      ELSE action

(* _execute_action: mark the engine busy and start the worker thread. *)
_execute_action(action, state, ctx) ==
    LET execution == RecoveryExecution(action, state, ctx)
    IN  /\ executing' = TRUE
        /\ current_execution' = execution
        /\ workers' = Append(workers, execution)
        /\ UNCHANGED <<engine_config, enabled, execution_history>>

(* What the engine may be asked: a detected state and a context. *)
EngineRequests ==
    {[state |-> CONTEXT_PRESSURE, ctx |-> PlainContext("other")],
     [state |-> INPUT_WAITING, ctx |-> PlainContext("yesno")],
     [state |-> INPUT_WAITING, ctx |-> PlainContext("other")],
     [state |-> ERROR, ctx |-> PlainContext("other")],
     [state |-> ACTIVE, ctx |-> PlainContext("other")],
     [state |-> IDLE, ctx |-> ClearContext("other")],
     [state |-> IDLE, ctx |-> PromptContext("other")]}

(* A thread runs execute_recovery down to the call of _execute_action. *)
CallExecuteRecovery(thread) ==
    /\ calls[thread] = NoCall
    /\ \E request \in EngineRequests :
          LET action == execute_recovery(request.state, request.ctx)
          IN  calls' = [calls EXCEPT ![thread] =
                           IF action = NoAction THEN NoCall
                           ELSE [action |-> action, state |-> request.state,
                                 ctx |-> request.ctx]]
    /\ UNCHANGED <<engine_config, enabled, executing, current_execution, workers, execution_history>>

(* The thread goes through _execute_action and returns the execution. *)
EnterExecuteAction(thread) ==
    /\ calls[thread] # NoCall
    /\ Len(workers) < MaxWorkers
    /\ _execute_action(calls[thread].action, calls[thread].state, calls[thread].ctx)
    /\ calls' = [calls EXCEPT ![thread] = NoCall]

RemoveAt(seq, i) == SubSeq(seq, 1, i - 1) \o SubSeq(seq, i + 1, Len(seq))

(* The history trimmed from the wrong end: the oldest entries stay. *)
AppendExecution_keep_oldest(history, execution) ==
    LET appended == Append(history, execution)
        history_limit == engine_config.execution_history_limit
    IN  IF Len(appended) > history_limit
        THEN SubSeq(appended, 1, history_limit)
        ELSE appended

(* _execution_history after the finally block appended and trimmed. *)
AppendExecution(history, execution) ==
    LET appended == Append(history, execution)
        history_limit == engine_config.execution_history_limit
    IN  IF Len(appended) > history_limit
        THEN SubSeq(appended, Len(appended) - history_limit + 1, Len(appended))
        ELSE appended

(* A worker thread runs to its end: result, end time, and the finally     *)
(* block that frees the engine and files the execution.                   *)
FinishExecution(i, result) ==
    /\ executing' = FALSE
    /\ current_execution' = NoExecution
    /\ execution_history' =
           AppendExecution(execution_history,
               [action_type |-> workers[i].action_type,
                target_state |-> workers[i].target_state,
                detected |-> workers[i].detected,
                result |-> result, end_age |-> 0])
    /\ workers' = RemoveAt(workers, i)
    /\ UNCHANGED <<engine_config, enabled, calls>>

(* The worker as one step, whatever the result of its retry loop. *)
_execute_action_worker(i) == \E result \in RecoveryResult : FinishExecution(i, result)

enable ==
    /\ enabled' = TRUE
    /\ UNCHANGED <<engine_config, executing, current_execution, workers,
                   execution_history, calls>>

disable ==
    /\ enabled' = FALSE
    /\ UNCHANGED <<engine_config, executing, current_execution, workers,
                   execution_history, calls>>

(* One second passes for the engine. *)
AgeHistory(history) ==
    [i \in DOMAIN history |->
        [history[i] EXCEPT !.end_age = Older(history[i].end_age, CooldownPeriod)]]

EngTick ==
    /\ execution_history' = AgeHistory(execution_history)
    /\ UNCHANGED <<engine_config, enabled, executing, current_execution, workers, calls>>

EngInit ==
    /\ engine_config = EngineConfig(ExecutionHistoryLimit, TRUE)
    /\ enabled = TRUE
    /\ executing = FALSE
    /\ current_execution = NoExecution
    /\ workers = <<>>
    /\ execution_history = <<>>
    /\ calls = [thread \in Threads |-> NoCall]

(***************************************************************************)
(* The engine with one caller, and the worker's retry loop step by step    *)
(***************************************************************************)
TIMEOUT == "timeout"
CANCELLED == "cancelled"

(* RecoveryAction.max_retries (3 for every action of the registry). *)
max_retries == 2

(* execution_history_limit of the engine that runs with one caller. *)
SerialHistoryLimit == 2

VARIABLES
    ended,       \* how many executions have ended, up to one more than the
                 \* history holds
    retry        \* the latest worker inside _execute_with_retry: the request
                 \* it was dispatched for, execution.attempts, the result
                 \* returned (None while looping), whether an attempt has
                 \* succeeded, whether one was made after that, whether
                 \* cancel_current_execution has set the execution's result,
                 \* and what its last call returned

retryVars == <<ended, retry>>

NoRequest == [state |-> None, ctx |-> PlainContext(None)]

NewRetry(request) ==
    [request |-> request, attempts |-> 0, result |-> None,
     succeeded |-> FALSE, after_success |-> FALSE,
     marked |-> FALSE, cancel_returned |-> None]

(* What _execute_single_attempt does: it returns True or False, or it     *)
(* raises TimeoutError or another exception.                              *)
AttemptOutcomes == {"success", "failed", "timeout", "error"}

(* One pass of `for attempt in range(max_retries + 1)`: the result the     *)
(* loop returns after it, None when it goes on.                            *)
_execute_with_retry_past_success(attempt, outcome) ==
    IF attempt < max_retries THEN None
    ELSE IF outcome = "success" THEN SUCCESS
    ELSE IF outcome = "timeout" THEN TIMEOUT ELSE FAILURE

_execute_with_retry_until_success(attempt, outcome) ==
    IF outcome = "success" THEN SUCCESS ELSE None

_execute_with_retry(attempt, outcome) ==
    IF outcome = "success" THEN SUCCESS
    ELSE IF outcome = "timeout" /\ attempt = max_retries THEN TIMEOUT
    ELSE IF outcome = "error" /\ attempt = max_retries THEN FAILURE
    ELSE IF attempt + 1 < max_retries + 1 THEN None
    ELSE FAILURE

_execute_single_attempt(outcome) ==
    /\ workers # << >>
    /\ retry.result = None
    /\ retry' = [retry EXCEPT
                     !.attempts = retry.attempts + 1,
                     !.result = _execute_with_retry(retry.attempts, outcome),
                     !.succeeded = retry.succeeded \/ outcome = "success",
                     !.after_success = retry.after_success \/ retry.succeeded]
    /\ UNCHANGED <<engVars, ended>>

(* execute_recovery called by the one caller, down to the started worker. *)
Dispatch ==
    /\ \E request \in EngineRequests :
          LET action == execute_recovery(request.state, request.ctx)
          IN  /\ action # NoAction
              /\ _execute_action(action, request.state, request.ctx)
              /\ retry' = NewRetry(request)
    /\ UNCHANGED <<calls, ended>>

(* cancel_current_execution(): under the lock, the execution in flight is *)
(* given the result CANCELLED and an end time; the worker is not stopped.  *)
cancel_current_execution ==
    LET in_flight == executing /\ current_execution # NoExecution
    IN  /\ retry' = [retry EXCEPT !.marked = retry.marked \/ in_flight,
                                  !.cancel_returned = IF in_flight THEN "True"
                                                      ELSE "False"]
        /\ UNCHANGED <<engVars, ended>>

(* execution.result as the worker leaves it for the finally block: the     *)
(* result of the retry loop is assigned to it.                             *)
worker_result(marked, result) == result

(* The worker after its retry loop has returned. *)
WorkerReturns ==
    /\ workers # << >>
    /\ retry.result # None
    /\ FinishExecution(1, worker_result(retry.marked, retry.result))
    /\ ended' = Min(ended + 1, engine_config.execution_history_limit + 1)
    /\ UNCHANGED retry

RetryInit == ended = 0 /\ retry = NewRetry(NoRequest)

(***************************************************************************)
(* _select_best_action applied to strategies beyond the registry           *)
(***************************************************************************)
VARIABLES sel_strategy, sel_ctx, sel_action

selVars == <<sel_strategy, sel_ctx, sel_action>>

(* Not selected yet. *)
Pending == RecoveryAction("pending", None, 0, FALSE)

ActionPool ==
    {RecoveryAction(PROVIDE_INPUT, INPUT_WAITING, 7, FALSE),
     RecoveryAction(RESUME_INPUT, INPUT_WAITING, 6, FALSE),
     RecoveryAction(RESTART_SESSION, IDLE, 4, TRUE),
     RecoveryAction(NOTIFY_USER, INPUT_WAITING, 4, FALSE)}

MaxActions == 3

SelStrategies ==
    {_strategies[i] : i \in DOMAIN _strategies}
    \cup {RecoveryStrategy("candidate", {INPUT_WAITING}, actions, NoConditions) :
            actions \in UNION {[1..n -> ActionPool] : n \in 1..MaxActions}}

SelContexts ==
    {PlainContext("yesno"), PlainContext("other"), PromptContext("other"),
     ClearContext("other")}

Select ==
    /\ sel_action = Pending
    /\ sel_action' = _select_best_action(sel_strategy, sel_ctx)
    /\ UNCHANGED <<sel_strategy, sel_ctx>>

SelInit ==
    /\ sel_strategy = NoStrategy
    /\ sel_ctx = PlainContext(None)
    /\ sel_action = NoAction

(***************************************************************************)
(* Orchestrator: decision engine, bootstrap manager, monitor loop          *)
(* (obsolete/src/decision/decision_engine.py,                              *)
(*  src/session/bootstrap_manager.py, src/orchestration/monitor_loop.py)   *)
(***************************************************************************)
(* Configuration of the daemon in the model. *)
DecisionMinInterval == 1
ClearCompletionFallbackSec == 3
ConsecIdleRequired == 2
BootstrapClearDelay == 1
BootstrapPromptDelay == 1
PostClearPromptDelay == 1

(* Values fixed in the code. *)
MinRecoveryInterval == 2
PostClearQuietSec == 1
InferredCompletionWindow == 5

ClearAgeCap == Max(ClearCompletionFallbackSec, InferredCompletionWindow)
recovery_states == {CONTEXT_PRESSURE, INPUT_WAITING, ERROR}

(* The states the detections handed to the orchestrator name. *)
DetectedStates == {IDLE, ACTIVE, CONTEXT_PRESSURE}

VARIABLES
    _last_detected_state,
    _last_decision_ts,          \* age, Never for None
    _consec_idle_count,         \* saturates at ConsecIdleRequired
    _consec_active_count,       \* saturates at 1
    _idle_period_cleared,
    _pending_bootstrap,
    _bootstrap_cleared,
    _last_idle_clear_at,        \* age, Never for None
    _last_idle_prompt_at,       \* age, Never for None
    _clear_completed_at,        \* None, or where it lies: before or after
                                \* _last_idle_clear_at
    _last_recovery_by_state,    \* per recovery state: age, Never for a missing key
    delayed_clear_timer,        \* remaining sleep of the BootstrapClearDelay thread
    fallback_prompt_timer,      \* remaining sleep of the BootstrapPromptFallback thread
    delayed_prompt_timer,       \* remaining sleep of the BootstrapPromptAfterClear thread
    clears_in_period,           \* clears dispatched since the last non-IDLE detection
    prompts_in_period,          \* prompts dispatched since the last non-IDLE detection
    boot_clears,                \* clears dispatched in the bootstrap sequence
    boot_prompts,               \* prompts dispatched in the bootstrap sequence
    idle_only,                  \* from now on the log is silent: only IDLE detections
    throttled,                  \* the global throttle stopped the last detection
    since_prompt                \* age of the last prompt dispatched, Never for none

orchVars == <<_last_detected_state, _last_decision_ts, _consec_idle_count,
              _consec_active_count, _idle_period_cleared, _pending_bootstrap,
              _bootstrap_cleared, _last_idle_clear_at, _last_idle_prompt_at,
              _clear_completed_at, _last_recovery_by_state, delayed_clear_timer,
              fallback_prompt_timer, delayed_prompt_timer, clears_in_period,
              prompts_in_period, boot_clears, boot_prompts,
              idle_only, throttled, since_prompt>>

BEFORE_CLEAR == "before-clear"
AFTER_CLEAR == "after-clear"

(* Counters of the properties stop at 2. *)
CountCap == 2
Count(n) == Min(n + 1, CountCap)

(* AwaitingClearCompletion satisfied by any completion, one seen before   *)
(* the last clear included.                                                *)
AwaitingClearCompletion_any_completion(clear_age, completed) ==
    /\ clear_age # Never
    /\ completed = None
    /\ clear_age < ClearCompletionFallbackSec

(* AwaitingClearCompletion without the fallback window. *)
AwaitingClearCompletion_no_bypass(clear_age, completed) ==
    /\ clear_age # Never
    /\ completed # AFTER_CLEAR

(* Phase 2 holds the prompt back for the completion of the clear, until   *)
(* the fallback window is over.                                            *)
AwaitingClearCompletion(clear_age, completed) ==
    /\ clear_age # Never
    /\ completed # AFTER_CLEAR
    /\ clear_age < ClearCompletionFallbackSec

(* _clear_completed_at once a clear is stamped with the current time. *)
Superseded(completed) == IF completed = None THEN None ELSE BEFORE_CLEAR

(* The throttle with the comparison of the states inverted: it stops a    *)
(* detection whose state differs from the last decided one.                *)
decision_throttled_other_state(state) ==
    /\ _last_detected_state # state
    /\ DecisionMinInterval > 0
    /\ _last_decision_ts # Never
    /\ _last_decision_ts < DecisionMinInterval

(* The global decision throttle at the head of process_detection. *)
decision_throttled(state) ==
    /\ _last_detected_state = state
    /\ DecisionMinInterval > 0
    /\ _last_decision_ts # Never
    /\ _last_decision_ts < DecisionMinInterval

(* The per-state throttle that stops nothing. *)
recovery_throttled_never(state) == FALSE

(* The per-state recovery throttle: a recovery for this state was          *)
(* dispatched less than the minimum recovery interval ago.                 *)
recovery_throttled(state) ==
    /\ state \in DOMAIN _last_recovery_by_state
    /\ _last_recovery_by_state[state] # Never
    /\ _last_recovery_by_state[state] < MinRecoveryInterval

(* Phase 1 recording the clear whether or not the engine took it. *)
clear_attempted(phase1, execution) == phase1

(* Phase 1 records the clear: execute_recovery returned an execution. *)
clear_dispatched(phase1, execution) == phase1 /\ execution

(* The streak test of the IDLE branch passing at the first detection.     *)
idle_confirmed_at_first(idle_count) == idle_count >= 1

(* The IDLE branch goes on to its two phases: the streak has reached      *)
(* consecutive-idle-required.                                             *)
idle_confirmed(idle_count) == idle_count >= Max(1, ConsecIdleRequired)

(* The pending flag after a prompt was asked of the engine: a prompt that  *)
(* was dispatched ends the bootstrap.                                      *)
pending_kept(pending, dispatched) == pending

pending_after_prompt(pending, dispatched) == IF dispatched THEN FALSE ELSE pending

(* process_detection(daemon, detection) *)
process_detection(state) ==
    LET throttled_now == decision_throttled(state)
        idle_count == IF state = IDLE
                      THEN Min(_consec_idle_count + 1, ConsecIdleRequired) ELSE 0
        active_count == IF state = ACTIVE THEN 1 ELSE 0
        period_cleared == IF state = IDLE THEN _idle_period_cleared ELSE FALSE
        state_throttled == recovery_throttled(state)
        acts == ~throttled_now /\ ~state_throttled
        idle_ready == acts /\ state = IDLE /\ idle_confirmed(idle_count)
        phase1 == /\ idle_ready
                  /\ (~period_cleared \/ _pending_bootstrap)
                  /\ ~_bootstrap_cleared
        should_send_prompt ==
            /\ idle_ready /\ ~phase1
            /\ ~(_last_idle_prompt_at # Never /\ _last_idle_prompt_at < CooldownPeriod)
            /\ ~(_last_idle_clear_at # Never /\ _last_idle_clear_at < PostClearQuietSec)
            /\ ~AwaitingClearCompletion(_last_idle_clear_at, _clear_completed_at)
            /\ ~(_pending_bootstrap /\ ~_bootstrap_cleared)
        recovers == acts /\ state \in recovery_states
        asks == phase1 \/ should_send_prompt \/ recovers
        ctx == IF phase1 THEN ClearContext("other")
               ELSE IF should_send_prompt THEN PromptContext("other")
               ELSE PlainContext("other")
        action == IF asks THEN execute_recovery(state, ctx) ELSE NoAction
        execution == action # NoAction
        clear_sent == clear_dispatched(phase1, execution)
        prompt_sent == should_send_prompt /\ execution
    IN  /\ IF execution
           THEN _execute_action(action, state, ctx) /\ UNCHANGED calls
           ELSE UNCHANGED engVars
        /\ _consec_idle_count' = IF throttled_now THEN _consec_idle_count ELSE idle_count
        /\ _consec_active_count' =
               IF throttled_now THEN _consec_active_count ELSE active_count
        /\ _idle_period_cleared' =
               IF throttled_now THEN _idle_period_cleared
               ELSE IF clear_sent THEN TRUE ELSE period_cleared
        /\ _last_idle_clear_at' = IF clear_sent THEN 0 ELSE _last_idle_clear_at
        /\ _clear_completed_at' =
               IF clear_sent THEN Superseded(_clear_completed_at)
               ELSE _clear_completed_at
        /\ _bootstrap_cleared' =
               IF clear_sent /\ _pending_bootstrap THEN TRUE
               ELSE IF prompt_sent /\ _pending_bootstrap THEN FALSE
               ELSE _bootstrap_cleared
        /\ _pending_bootstrap' = pending_after_prompt(_pending_bootstrap, prompt_sent)
        /\ _last_idle_prompt_at' = IF prompt_sent THEN 0 ELSE _last_idle_prompt_at
        /\ _last_recovery_by_state' =
               IF recovers /\ execution
               THEN [key \in DOMAIN _last_recovery_by_state \cup {state} |->
                        IF key = state THEN 0 ELSE _last_recovery_by_state[key]]
               ELSE _last_recovery_by_state
        /\ _last_detected_state' = IF acts THEN state ELSE _last_detected_state
        /\ _last_decision_ts' = IF acts THEN 0 ELSE _last_decision_ts
        /\ clears_in_period' =
               IF state # IDLE THEN 0
               ELSE IF clear_sent THEN Count(clears_in_period) ELSE clears_in_period
        /\ prompts_in_period' =
               IF state # IDLE THEN 0
               ELSE IF prompt_sent THEN Count(prompts_in_period) ELSE prompts_in_period
        /\ boot_clears' =
               IF clear_sent /\ _pending_bootstrap THEN Count(boot_clears)
               ELSE boot_clears
        /\ boot_prompts' =
               IF prompt_sent /\ _pending_bootstrap THEN Count(boot_prompts)
               ELSE boot_prompts
        /\ UNCHANGED <<delayed_clear_timer, fallback_prompt_timer,
                       delayed_prompt_timer, idle_only>>
        /\ throttled' = decision_throttled(state)
        /\ since_prompt' = IF prompt_sent THEN 0 ELSE since_prompt

(* A log line whose detection reaches process_detection (on_new_log_line), *)
(* or the inactivity fallback of the monitor loop (IDLE only).             *)
Detection(state) ==
    /\ idle_only => state = IDLE
    /\ process_detection(state)

(* Metadata of a log line, by the branch of handle_log_metadata it takes:  *)
(* the completion marker; a marker only the inference reads; the welcome   *)
(* banner, read by the inference and as session marker; a session marker;  *)
(* the marker of the command channel being ready.                          *)
MetaKinds == {"clear_completed", "claude_prompt", "welcome_banner",
              "session_start_marker", "tcp_server_started"}

InferenceKinds == {"welcome_banner", "claude_prompt"}
SessionMarkerKinds == {"session_start_marker", "welcome_banner",
                       "tcp_server_started"}

(* A session marker arms a bootstrap whether or not one is pending. *)
arms_bootstrap_while_pending(meta) == meta \in SessionMarkerKinds

(* A session marker arms a bootstrap: none is pending. *)
arms_bootstrap(meta) == meta \in SessionMarkerKinds /\ ~_pending_bootstrap

(* A timer thread is started: its sleep begins. *)
orchOnly == <<_consec_idle_count, _consec_active_count, _idle_period_cleared,
              _last_decision_ts, _last_recovery_by_state, clears_in_period,
              prompts_in_period, idle_only, throttled, since_prompt>>

(* handle_log_metadata(daemon, meta) *)
handle_log_metadata(meta) ==
    IF meta = "clear_completed"
    THEN /\ _pending_bootstrap => delayed_prompt_timer = Never
         /\ _clear_completed_at' = AFTER_CLEAR
         /\ _bootstrap_cleared' = TRUE
         /\ delayed_prompt_timer' =
                IF _pending_bootstrap THEN PostClearPromptDelay ELSE delayed_prompt_timer
         /\ UNCHANGED <<_last_detected_state, _pending_bootstrap, _last_idle_clear_at,
                        _last_idle_prompt_at, delayed_clear_timer,
                        fallback_prompt_timer, boot_clears, boot_prompts>>
    ELSE IF _pending_bootstrap /\ meta \in InferenceKinds
    THEN LET inferred == /\ _last_idle_clear_at # Never
                         /\ _last_idle_clear_at < InferredCompletionWindow
         IN  /\ inferred => delayed_prompt_timer = Never
             /\ _clear_completed_at' =
                    IF inferred THEN AFTER_CLEAR ELSE _clear_completed_at
             /\ _bootstrap_cleared' = IF inferred THEN TRUE ELSE _bootstrap_cleared
             /\ delayed_prompt_timer' =
                    IF inferred THEN PostClearPromptDelay ELSE delayed_prompt_timer
             /\ UNCHANGED <<_last_detected_state, _pending_bootstrap,
                            _last_idle_clear_at, _last_idle_prompt_at,
                            delayed_clear_timer, fallback_prompt_timer,
                            boot_clears, boot_prompts>>
    ELSE IF arms_bootstrap(meta)
    THEN /\ delayed_clear_timer = Never
         /\ _pending_bootstrap' = TRUE
         /\ _last_detected_state' = UNKNOWN
         /\ _last_idle_clear_at' = Never
         /\ _last_idle_prompt_at' = Never
         /\ _clear_completed_at' = None
         /\ _bootstrap_cleared' = FALSE
         /\ delayed_clear_timer' = BootstrapClearDelay
         /\ boot_clears' = 0
         /\ boot_prompts' = 0
         /\ UNCHANGED <<fallback_prompt_timer, delayed_prompt_timer>>
    ELSE UNCHANGED <<_last_detected_state, _pending_bootstrap, _bootstrap_cleared,
                     _last_idle_clear_at, _last_idle_prompt_at, _clear_completed_at,
                     delayed_clear_timer, fallback_prompt_timer,
                     delayed_prompt_timer, boot_clears, boot_prompts>>

Metadata(meta) ==
    /\ ~idle_only
    /\ handle_log_metadata(meta)
    /\ UNCHANGED orchOnly
    /\ UNCHANGED engVars

(* _delayed_clear, after its sleep. *)
_delayed_clear ==
    LET skips == ~_pending_bootstrap \/ _bootstrap_cleared
        action == IF skips THEN NoAction
                  ELSE execute_recovery(IDLE, ClearContext("other"))
        execn_inner == action # NoAction
    IN  /\ delayed_clear_timer = 0
        /\ execn_inner => fallback_prompt_timer = Never
        /\ delayed_clear_timer' = Never
        /\ IF execn_inner
           THEN _execute_action(action, IDLE, ClearContext("other")) /\ UNCHANGED calls
           ELSE UNCHANGED engVars
        /\ _last_idle_clear_at' = IF execn_inner THEN 0 ELSE _last_idle_clear_at
        /\ _clear_completed_at' =
               IF execn_inner THEN Superseded(_clear_completed_at)
               ELSE _clear_completed_at
        /\ fallback_prompt_timer' =
               IF execn_inner THEN BootstrapPromptDelay ELSE fallback_prompt_timer
        /\ boot_clears' = IF execn_inner THEN Count(boot_clears) ELSE boot_clears
        /\ clears_in_period' =
               IF execn_inner THEN Count(clears_in_period) ELSE clears_in_period
        /\ UNCHANGED <<_last_detected_state, _last_decision_ts, _consec_idle_count,
                       _consec_active_count, _idle_period_cleared, _pending_bootstrap,
                       _bootstrap_cleared, _last_idle_prompt_at,
                       _last_recovery_by_state, delayed_prompt_timer,
                       prompts_in_period, boot_prompts, idle_only, throttled, since_prompt>>

(* The prompt dispatch the three prompt timers share. *)
BootstrapPrompt(skips) ==
    LET action == IF skips THEN NoAction
                  ELSE execute_recovery(IDLE, PromptContext("other"))
        execn == action # NoAction
    IN  /\ IF execn
           THEN _execute_action(action, IDLE, PromptContext("other")) /\ UNCHANGED calls
           ELSE UNCHANGED engVars
        /\ _last_idle_prompt_at' = IF execn THEN 0 ELSE _last_idle_prompt_at
        /\ _pending_bootstrap' = pending_after_prompt(_pending_bootstrap, execn)
        /\ _bootstrap_cleared' = IF execn THEN FALSE ELSE _bootstrap_cleared
        /\ boot_prompts' = IF execn THEN Count(boot_prompts) ELSE boot_prompts
        /\ prompts_in_period' =
               IF execn THEN Count(prompts_in_period) ELSE prompts_in_period
        /\ UNCHANGED <<_last_detected_state, _last_decision_ts, _consec_idle_count,
                       _consec_active_count, _idle_period_cleared,
                       _last_idle_clear_at, _clear_completed_at,
                       _last_recovery_by_state, delayed_clear_timer,
                       clears_in_period, boot_clears, idle_only, throttled>>
        /\ since_prompt' = IF execn THEN 0 ELSE since_prompt

(* _fallback_prompt, after its sleep. *)
_fallback_prompt ==
    /\ fallback_prompt_timer = 0
    /\ fallback_prompt_timer' = Never
    /\ BootstrapPrompt(~_pending_bootstrap \/ _bootstrap_cleared)
    /\ UNCHANGED delayed_prompt_timer

(* _delayed_prompt_after_clear and _delayed_prompt_after_inferred, after   *)
(* their sleep.                                                            *)
_delayed_prompt_after_clear ==
    /\ delayed_prompt_timer = 0
    /\ delayed_prompt_timer' = Never
    /\ BootstrapPrompt(~_pending_bootstrap)
    /\ UNCHANGED fallback_prompt_timer

(* The log falls silent. *)
LogFallsSilent ==
    /\ ~idle_only
    /\ idle_only' = TRUE
    /\ UNCHANGED <<_last_detected_state, _last_decision_ts, _consec_idle_count,
                   _consec_active_count, _idle_period_cleared, _pending_bootstrap,
                   _bootstrap_cleared, _last_idle_clear_at, _last_idle_prompt_at,
                   _clear_completed_at, _last_recovery_by_state, delayed_clear_timer,
                   fallback_prompt_timer, delayed_prompt_timer, clears_in_period,
                   prompts_in_period, boot_clears, boot_prompts, throttled, since_prompt>>
    /\ UNCHANGED engVars

(* A sleeping timer thread one second on. *)
Sleep(timer) == IF timer = Never THEN Never ELSE Max(timer - 1, 0)

(* One second passes for the daemon and its engine. *)
Tick ==
    /\ _last_decision_ts' = Older(_last_decision_ts, DecisionMinInterval)
    /\ _last_idle_clear_at' = Older(_last_idle_clear_at, ClearAgeCap)
    /\ _last_idle_prompt_at' = Older(_last_idle_prompt_at, CooldownPeriod)
    /\ _last_recovery_by_state' =
           [key \in DOMAIN _last_recovery_by_state |->
               Older(_last_recovery_by_state[key], MinRecoveryInterval)]
    /\ delayed_clear_timer' = Sleep(delayed_clear_timer)
    /\ fallback_prompt_timer' = Sleep(fallback_prompt_timer)
    /\ delayed_prompt_timer' = Sleep(delayed_prompt_timer)
    /\ EngTick
    /\ UNCHANGED <<_last_detected_state, _consec_idle_count, _consec_active_count,
                   _idle_period_cleared, _pending_bootstrap, _bootstrap_cleared,
                   _clear_completed_at, clears_in_period, prompts_in_period, boot_clears, boot_prompts, idle_only, throttled>>
    /\ since_prompt' = Older(since_prompt, CooldownPeriod)

OrchInit ==
    /\ _last_detected_state = UNKNOWN
    /\ _last_decision_ts = Never
    /\ _consec_idle_count = 0
    /\ _consec_active_count = 0
    /\ _idle_period_cleared = FALSE
    /\ _pending_bootstrap = FALSE
    /\ _bootstrap_cleared = FALSE
    /\ _last_idle_clear_at = Never
    /\ _last_idle_prompt_at = Never
    /\ _clear_completed_at = None
    /\ _last_recovery_by_state = [key \in {} |-> Never]
    /\ delayed_clear_timer = Never
    /\ fallback_prompt_timer = Never
    /\ delayed_prompt_timer = Never
    /\ clears_in_period = 0
    /\ prompts_in_period = 0
    /\ boot_clears = 0
    /\ boot_prompts = 0
    /\ idle_only = FALSE
    /\ throttled = FALSE
    /\ since_prompt = Never

(* schedule_preflight_bootstrap_if_needed(daemon), called once, from the   *)
(* initialisation of the components after the command channel connected,  *)
(* before anything was processed; read_from_end is on.                    *)
schedule_preflight_bootstrap_if_needed ==
    /\ OrchInit
    /\ ~_pending_bootstrap /\ _last_idle_clear_at = Never
    /\ _pending_bootstrap' = TRUE
    /\ _bootstrap_cleared' = FALSE
    /\ _clear_completed_at' = None
    /\ _last_idle_prompt_at' = Never
    /\ delayed_clear_timer' = BootstrapClearDelay
    /\ UNCHANGED <<_last_detected_state, _last_idle_clear_at,
                   fallback_prompt_timer, delayed_prompt_timer, boot_clears,
                   boot_prompts>>
    /\ UNCHANGED orchOnly
    /\ UNCHANGED engVars

(* A worker of the engine runs to its end under the daemon. *)
WorkerEnds ==
    /\ \E i \in DOMAIN workers : _execute_action_worker(i)
    /\ UNCHANGED orchVars

(***************************************************************************)
(* The command channel: TCPClient                                          *)
(*                                                                         *)
(* connect, disconnect, _send_message, _handle_connection_error and        *)
(* _attempt_reconnect run under the channel's lock, so each is one step.   *)
(* _send_with_retry and _reconnect_worker take the lock only inside those  *)
(* calls: they are modelled with a position, one step per locked region.   *)
(***************************************************************************)
DISCONNECTED == "disconnected"
CONNECTING == "connecting"
CONNECTED == "connected"
RECONNECTING == "reconnecting"

ConnectionState == {DISCONNECTED, CONNECTING, CONNECTED, RECONNECTING, ERROR}

auto_reconnect == TRUE

(* config['max_retries'] of the channel (3 in the defaults). *)
SendMaxRetries == 1

(* max_backoff of the reconnection loop (30.0 in the source). *)
max_backoff == 2

(* How many reconnection threads the model lets live at once. *)
MaxReconnectThreads == 2

VARIABLES
    _socket,             \* TRUE when a socket object is held, FALSE for None
    _state,              \* ConnectionState
    _should_reconnect,
    _reconnect_thread,   \* 0 for None, else the thread the field refers to
    reconnect_threads,   \* thread -> position and backoff of _reconnect_worker
    sender,              \* position of the caller inside _send_with_retry
    endpoint_up,         \* the remote endpoint accepts connections
    lost                 \* a transport failure of the connected channel is
                         \* waiting for its reconnection

chVars == <<_socket, _state, _should_reconnect, _reconnect_thread,
            reconnect_threads, sender, endpoint_up, lost>>

ReconnectThreads == 1..MaxReconnectThreads

DeadThread == [pc |-> "dead", backoff |-> 1]

is_alive(t) == reconnect_threads[t].pc # "dead"

is_connected == _state = CONNECTED /\ _socket

(* connect(): TRUE is returned at once on a connected channel; otherwise   *)
(* the socket is opened, which succeeds when the endpoint accepts.         *)
connect_returns == _state = CONNECTED \/ endpoint_up

connect_effect ==
    IF _state = CONNECTED
    THEN UNCHANGED <<_state, _socket, lost>>
    ELSE IF endpoint_up
         THEN _state' = CONNECTED /\ _socket' = TRUE /\ lost' = FALSE
         ELSE _state' = ERROR /\ _socket' = FALSE /\ UNCHANGED lost

connect ==
    /\ connect_effect
    /\ UNCHANGED <<_should_reconnect, _reconnect_thread, reconnect_threads,
                   sender, endpoint_up>>

disconnect ==
    /\ _should_reconnect' = FALSE
    /\ _reconnect_thread' =
           IF _reconnect_thread # 0 /\ is_alive(_reconnect_thread)
           THEN 0 ELSE _reconnect_thread
    /\ _socket' = FALSE
    /\ _state' = DISCONNECTED
    /\ lost' = FALSE
    /\ UNCHANGED <<reconnect_threads, sender, endpoint_up>>

(* Thread(target=_reconnect_worker).start(): the new thread takes the      *)
(* lowest identity that no live thread holds.                              *)
FreeThreads == {t \in ReconnectThreads : ~is_alive(t)}

NewThread == CHOOSE t \in FreeThreads : \A u \in FreeThreads : t <= u

_attempt_reconnect(state_now) ==
    IF (_reconnect_thread # 0 /\ is_alive(_reconnect_thread))
       \/ state_now = CONNECTING
    THEN UNCHANGED <<_should_reconnect, _reconnect_thread, reconnect_threads>>
    ELSE /\ FreeThreads # {}
         /\ _should_reconnect' = TRUE
         /\ _reconnect_thread' = NewThread
         /\ reconnect_threads' =
                [reconnect_threads EXCEPT ![NewThread] = [pc |-> "check", backoff |-> 1]]

_handle_connection_error ==
    IF _state = CONNECTED
    THEN /\ _state' = ERROR
         /\ _socket' = FALSE
         /\ lost' = auto_reconnect
         /\ IF auto_reconnect
            THEN _attempt_reconnect(ERROR)
            ELSE UNCHANGED <<_should_reconnect, _reconnect_thread, reconnect_threads>>
    ELSE UNCHANGED <<_state, _socket, lost, _should_reconnect, _reconnect_thread,
                     reconnect_threads>>

(* What one _send_message can meet on a connected channel: it is sent, the *)
(* socket fails (in sendall or in recv), or the response does not come.    *)
SendOutcomes == {"sent", "socket_error", "no_response"}

SenderIdle == [pc |-> "idle", attempt |-> 0]

AfterFailedSend(attempt) ==
    IF attempt < SendMaxRetries
    THEN [pc |-> "sleep", attempt |-> attempt]
    ELSE SenderIdle

(* send_command / send_recovery_action enter _send_with_retry. *)
send_command ==
    /\ sender.pc = "idle"
    /\ sender' = [pc |-> "send", attempt |-> 0]
    /\ UNCHANGED <<_socket, _state, _should_reconnect, _reconnect_thread,
                   reconnect_threads, endpoint_up, lost>>

_send_message(outcome) ==
    /\ sender.pc = "send"
    /\ IF ~is_connected
       THEN /\ sender' = AfterFailedSend(sender.attempt)
            /\ UNCHANGED <<_socket, _state, _should_reconnect, _reconnect_thread,
                           reconnect_threads, lost>>
       ELSE CASE outcome = "sent" ->
                    /\ sender' = SenderIdle
                    /\ UNCHANGED <<_socket, _state, _should_reconnect,
                                   _reconnect_thread, reconnect_threads, lost>>
              [] outcome = "socket_error" ->
                    /\ _handle_connection_error
                    /\ sender' = AfterFailedSend(sender.attempt)
              [] outcome = "no_response" ->
                    /\ sender' = AfterFailedSend(sender.attempt)
                    /\ UNCHANGED <<_socket, _state, _should_reconnect,
                                   _reconnect_thread, reconnect_threads, lost>>
    /\ UNCHANGED endpoint_up

(* _send_with_retry after time.sleep(backoff): is_connected() is read. *)
SenderWakes ==
    /\ sender.pc = "sleep"
    /\ sender' = [pc |-> IF is_connected THEN "send" ELSE "reconnect",
                  attempt |-> IF is_connected THEN sender.attempt + 1
                              ELSE sender.attempt]
    /\ UNCHANGED <<_socket, _state, _should_reconnect, _reconnect_thread,
                   reconnect_threads, endpoint_up, lost>>

(* ... and _attempt_reconnect() is called when it was not connected. *)
SenderReconnects ==
    /\ sender.pc = "reconnect"
    /\ _attempt_reconnect(_state)
    /\ sender' = [pc |-> "send", attempt |-> sender.attempt + 1]
    /\ UNCHANGED <<_socket, _state, endpoint_up, lost>>

(* _reconnect_worker, thread t. *)
WorkerAt(t, pc) == reconnect_threads[t].pc = pc

WorkerTo(t, pc) ==
    reconnect_threads' = [reconnect_threads EXCEPT ![t].pc = pc]

(* while self._should_reconnect and not self.is_connected() *)
WorkerLoop(t) ==
    /\ WorkerAt(t, "check")
    /\ WorkerTo(t, IF _should_reconnect /\ ~is_connected THEN "sleep" ELSE "exit")
    /\ UNCHANGED <<_socket, _state, _should_reconnect, _reconnect_thread,
                   sender, endpoint_up, lost>>

(* time.sleep(backoff); if not self._should_reconnect: break *)
WorkerWakes(t) ==
    /\ WorkerAt(t, "sleep")
    /\ WorkerTo(t, IF _should_reconnect THEN "mark" ELSE "exit")
    /\ UNCHANGED <<_socket, _state, _should_reconnect, _reconnect_thread,
                   sender, endpoint_up, lost>>

(* with self._lock: self._state = RECONNECTING *)
WorkerMarks(t) ==
    /\ WorkerAt(t, "mark")
    /\ WorkerTo(t, "connect")
    /\ _state' = RECONNECTING
    /\ UNCHANGED <<_socket, _should_reconnect, _reconnect_thread, sender,
                   endpoint_up, lost>>

(* if self.connect(): break; else: backoff = min(backoff * 2, max_backoff) *)
WorkerConnects(t) ==
    /\ WorkerAt(t, "connect")
    /\ connect_effect
    /\ reconnect_threads' =
           IF connect_returns
           THEN [reconnect_threads EXCEPT ![t].pc = "exit"]
           ELSE [reconnect_threads EXCEPT
                     ![t] = [pc |-> "check",
                             backoff |-> Min(reconnect_threads[t].backoff * 2,
                                             max_backoff)]]
    /\ UNCHANGED <<_should_reconnect, _reconnect_thread, sender, endpoint_up>>

(* with self._lock: if not self._should_reconnect: state = DISCONNECTED *)
WorkerExits(t) ==
    /\ WorkerAt(t, "exit")
    /\ reconnect_threads' = [reconnect_threads EXCEPT ![t] = DeadThread]
    /\ _state' = IF _should_reconnect THEN _state ELSE DISCONNECTED
    /\ UNCHANGED <<_socket, _should_reconnect, _reconnect_thread, sender,
                   endpoint_up, lost>>

_reconnect_worker(t) ==
    \/ WorkerLoop(t)
    \/ WorkerWakes(t)
    \/ WorkerMarks(t)
    \/ WorkerConnects(t)
    \/ WorkerExits(t)

(* The remote endpoint starts and stops accepting connections. *)
EndpointChanges ==
    /\ endpoint_up' = ~endpoint_up
    /\ UNCHANGED <<_socket, _state, _should_reconnect, _reconnect_thread,
                   reconnect_threads, sender, lost>>

EndpointComesUp == ~endpoint_up /\ EndpointChanges

ChInit ==
    /\ _socket = FALSE
    /\ _state = DISCONNECTED
    /\ _should_reconnect = FALSE
    /\ _reconnect_thread = 0
    /\ reconnect_threads = [t \in ReconnectThreads |-> DeadThread]
    /\ sender = SenderIdle
    /\ endpoint_up = TRUE
    /\ lost = FALSE

(***************************************************************************)
(* The log tailer: LogParser and its LogContext                            *)
(*                                                                         *)
(* Files are told apart by their identity (st_ino). Sizes and offsets are  *)
(* counted in lines; line i of file f is <<f, i>>. A file may end with the *)
(* beginning of a line whose newline is not written yet, and an offset     *)
(* may lie inside such a line. The path names one file at a time.          *)
(***************************************************************************)
(* How many file identities the path can name in a run, one after another. *)
MaxFiles == 2

(* How many lines are written to one file. *)
MaxFileLines == 3

(* max_context_lines of the tailer's LogContext (1000 in the defaults). *)
MaxContextLines == 2

(* The count of reported errors stops here. *)
MaxErrors == 2

(* What the path names: a file that can be opened, a file whose open      *)
(* raises (permissions), or nothing.                                       *)
READABLE == "readable"
UNREADABLE == "unreadable"
MISSING == "missing"
PathStates == {READABLE, UNREADABLE, MISSING}

VARIABLES
    files,               \* identity -> number of lines in the file
    written,             \* identity -> number of lines ever written to it
    open_line,           \* identity -> the file ends with the beginning of
                         \* a line, its newline not written yet
    path_file,           \* identity of the file the path names, or named last
    path_state,
    _file_handle,        \* 0 for None, else the identity of the open file
    handle_offset,       \* read offset of the open handle
    handle_in_line,      \* ... which lies inside the line after these
    _current_position,
    position_in_line,    \* _current_position lies inside a line
    _file_stat,          \* 0 for None, else st_ino of the stat last taken
    file_rotations,      \* _stats['file_rotations']
    _lines,              \* LogContext._lines
    delivered,           \* the lines handed to the line callbacks, in order
    errors,              \* _stats['errors']: calls of the error callbacks
    monitor_alive        \* the LogParser-Monitor thread is in its loop

tailVars == <<files, written, open_line, path_file, path_state, _file_handle,
              handle_offset, handle_in_line, _current_position, position_in_line,
              _file_stat, file_rotations, _lines, delivered, errors, monitor_alive>>

FileIds == 1..MaxFiles

(* The tailer's fields that one round of the monitoring loop works on. *)
TailerFields ==
    [handle |-> _file_handle, offset |-> handle_offset, in_line |-> handle_in_line,
     position |-> _current_position, pos_in_line |-> position_in_line,
     stat |-> _file_stat,
     rotations |-> file_rotations, lines |-> _lines, out |-> delivered,
     errors |-> errors, alive |-> monitor_alive]

(* _handle_error: the error is counted and handed to the error callbacks. *)
_handle_error(t) == [t EXCEPT !.errors = Min(t.errors + 1, MaxErrors)]

_handle_file_rotation(t) ==
    [t EXCEPT !.handle = 0, !.offset = 0, !.in_line = FALSE,
              !.position = 0, !.pos_in_line = FALSE]

_check_file_changes(t) ==
    IF path_state = MISSING THEN t
    ELSE
    LET current_stat == [st_ino |-> path_file, st_size |-> files[path_file]]
        smaller == \/ current_stat.st_size < t.position
                   \/ /\ current_stat.st_size = t.position
                      /\ t.pos_in_line /\ ~open_line[path_file]
        u == IF t.stat # 0 /\ current_stat.st_ino # t.stat
             THEN [_handle_file_rotation(t) EXCEPT !.rotations = t.rotations + 1]
             ELSE IF t.stat # 0 /\ smaller
                  THEN [t EXCEPT !.position = 0, !.pos_in_line = FALSE]
                  ELSE t
    IN  [u EXCEPT !.stat = current_stat.st_ino]

(* The line at offset i of file f: the lines in a file are the last ones   *)
(* written to it.                                                          *)
LineAt(f, i) == <<f, written[f] - files[f] + i>>

(* What `buffer.split('\n', 1)` yields for a line of which the handle has  *)
(* read only the part after its offset: the rest of the line.              *)
Rest(line) == <<line[1], line[2], "rest">>

(* The text up to the next newline as the handle reads it at offset from   *)
(* of file f.                                                              *)
ReadLine(t, f, from) ==
    IF t.in_line /\ from = t.offset THEN Rest(LineAt(f, from + 1))
    ELSE LineAt(f, from + 1)

RECURSIVE DeliverLines(_, _, _, _)
(* Lines from + 1 .. to of file f: add_line on the context, then the line  *)
(* callbacks, one line after the other.                                    *)
DeliverLines(t, f, from, to) ==
    IF from >= to THEN t
    ELSE DeliverLines([t EXCEPT !.lines = deque_append(t.lines, ReadLine(t, f, from),
                                                       MaxContextLines),
                                !.out = Append(t.out, ReadLine(t, f, from))],
                      f, from + 1, to)

(* The file is opened by path at _current_position when no handle is held; *)
(* the handle is read to its end and _current_position follows its tell(). *)
(* The text read is cut at the newlines into lines; what follows the last  *)
(* newline is held in a local buffer and gone when the call returns.  An   *)
(* open() that raises is caught: the error is reported and no line is      *)
(* processed.                                                              *)
_process_new_lines(t) ==
    IF t.handle = 0 /\ path_state # READABLE
    THEN _handle_error(t)
    ELSE LET opened == IF t.handle = 0
                       THEN [t EXCEPT !.handle = path_file, !.offset = t.position,
                                      !.in_line = t.pos_in_line]
                       ELSE t
             size == files[opened.handle]
             begun == open_line[opened.handle]
         IN  IF opened.offset > size
                \/ (opened.offset = size /\ (opened.in_line \/ ~begun))
             THEN opened
             ELSE [DeliverLines(opened, opened.handle, opened.offset, size)
                       EXCEPT !.offset = size, !.in_line = begun,
                              !.position = size, !.pos_in_line = begun]

(* One round of _monitoring_worker: the file check when file_check_interval *)
(* has passed since the last one, then the new lines.                      *)
_monitoring_worker(check_due) ==
    LET t == _process_new_lines(IF check_due THEN _check_file_changes(TailerFields)
                                ELSE TailerFields)
    IN  /\ monitor_alive
        /\ monitor_alive' = t.alive
        /\ errors' = t.errors
        /\ _file_handle' = t.handle
        /\ handle_offset' = t.offset
        /\ handle_in_line' = t.in_line
        /\ _current_position' = t.position
        /\ position_in_line' = t.pos_in_line
        /\ _file_stat' = t.stat
        /\ file_rotations' = t.rotations
        /\ _lines' = t.lines
        /\ delivered' = t.out
        /\ UNCHANGED <<files, written, open_line, path_file, path_state>>

(* The writer appends a line to the file the path names. *)
tailerOnly == <<_file_handle, handle_offset, handle_in_line, _current_position,
                position_in_line, _file_stat, file_rotations, _lines, delivered,
                errors, monitor_alive>>

AppendLine ==
    /\ path_state # MISSING
    /\ ~open_line[path_file]
    /\ files[path_file] < MaxFileLines
    /\ files' = [files EXCEPT ![path_file] = @ + 1]
    /\ written' = [written EXCEPT ![path_file] = @ + 1]
    /\ UNCHANGED <<open_line, path_file, path_state, tailerOnly>>

(* The writer writes a line in two parts: its beginning, and later the     *)
(* rest with the newline.                                                  *)
BeginLine ==
    /\ path_state # MISSING
    /\ ~open_line[path_file]
    /\ files[path_file] < MaxFileLines
    /\ open_line' = [open_line EXCEPT ![path_file] = TRUE]
    /\ UNCHANGED <<files, written, path_file, path_state, tailerOnly>>

EndLine ==
    /\ path_state # MISSING
    /\ open_line[path_file]
    /\ open_line' = [open_line EXCEPT ![path_file] = FALSE]
    /\ files' = [files EXCEPT ![path_file] = @ + 1]
    /\ written' = [written EXCEPT ![path_file] = @ + 1]
    /\ UNCHANGED <<path_file, path_state, tailerOnly>>

(* The file is truncated to nothing, keeping its identity; a file is       *)
(* truncated once.                                                         *)
Truncate ==
    /\ path_state # MISSING
    /\ files[path_file] > 0
    /\ written[path_file] = files[path_file]
    /\ files' = [files EXCEPT ![path_file] = 0]
    /\ open_line' = [open_line EXCEPT ![path_file] = FALSE]
    /\ UNCHANGED <<written, path_file, path_state, tailerOnly>>

(* The file is removed; a new, empty file is created at the path; the     *)
(* permissions of the file change.                                         *)
Remove ==
    /\ path_state # MISSING
    /\ path_state' = MISSING
    /\ UNCHANGED <<files, written, open_line, path_file, tailerOnly>>

Create ==
    /\ path_state = MISSING
    /\ path_file < MaxFiles
    /\ path_file' = path_file + 1
    /\ \E state \in {READABLE, UNREADABLE} : path_state' = state
    /\ UNCHANGED <<files, written, open_line, tailerOnly>>

Chmod ==
    /\ path_state # MISSING
    /\ path_state' = IF path_state = READABLE THEN UNREADABLE ELSE READABLE
    /\ UNCHANGED <<files, written, open_line, path_file, tailerOnly>>

(* The file is rotated: the path names a new, empty file; the old one      *)
(* lives on under another name.                                            *)
Rotate ==
    /\ path_state # MISSING
    /\ path_file < MaxFiles
    /\ path_file' = path_file + 1
    /\ UNCHANGED <<files, written, open_line, path_state, tailerOnly>>

(* After set_log_file and start_monitoring. *)
TailInit ==
    /\ files = [f \in FileIds |-> 0]
    /\ written = [f \in FileIds |-> 0]
    /\ open_line = [f \in FileIds |-> FALSE]
    /\ path_file = 1
    /\ path_state = READABLE
    /\ errors = 0
    /\ monitor_alive = TRUE
    /\ _file_handle = 0
    /\ handle_offset = 0
    /\ handle_in_line = FALSE
    /\ _current_position = 0
    /\ position_in_line = FALSE
    /\ _file_stat = 0
    /\ file_rotations = 0
    /\ _lines = << >>
    /\ delivered = << >>

(***************************************************************************)
(* Configuration reload: the daemon's _reload_config_internal, the          *)
(* reloader module's reload_config_internal, ConfigManager.reload_config   *)
(***************************************************************************)
(* What the configuration file holds: nothing (no file), text that is not  *)
(* YAML, or a document.  A document is empty, a mapping with valid values  *)
(* (c0, c1), a mapping with values out of range, or no mapping at all.     *)
Documents == {"empty", "c0", "c1", "out_of_range", "not_a_mapping"}

FileContents ==
    {[kind |-> "missing", doc |-> None], [kind |-> "unparsable", doc |-> None]}
    \cup {[kind |-> "document", doc |-> doc] : doc \in Documents}

(* yaml.safe_load(f) or {} *)
safe_load(doc) == IF doc = "empty" THEN "{}" ELSE doc

(* Config(config_dict).validate() finds no error. *)
ValidConfigs == {"{}", "c0", "c1"}

VARIABLES
    config_file,   \* the file at config_path
    config,        \* the daemon's self.config
    _config,       \* ConfigManager._config, None when not loaded
    reload         \* the last reload: who ran it, the file it met, what it
                   \* logged, and both configurations before it

cfgVars == <<config_file, config, _config, reload>>

Reloaded(by, logged) ==
    [by |-> by, file |-> config_file, logged |-> logged,
     daemon |-> config, manager |-> _config]

(* The body of the daemon's reload: the configuration after it and what    *)
(* was logged.  components_raise: update_config of a component raises;     *)
(* guarded: the call is inside its own try.                                *)
reload_body(components_raise, guarded) ==
    IF config_file.kind # "document"
    THEN [config |-> config, logged |-> "failed"]
    ELSE LET new_config == safe_load(config_file.doc)
         IN  IF new_config = config
             THEN [config |-> config, logged |-> "unchanged"]
             ELSE IF new_config = "not_a_mapping"
                  THEN [config |-> new_config, logged |-> "failed"]
                  ELSE IF components_raise /\ ~guarded
                       THEN [config |-> new_config, logged |-> "failed"]
                       ELSE [config |-> new_config, logged |-> "reloaded"]

(* ClaudeMonitorDaemon._reload_config_internal *)
_reload_config_internal ==
    \E components_raise \in BOOLEAN :
        LET after == reload_body(components_raise, FALSE)
        IN  /\ config' = after.config
            /\ reload' = Reloaded("daemon", after.logged)
            /\ UNCHANGED <<config_file, _config>>

(* reloader.reload_config_internal(daemon) *)
reload_config_internal ==
    \E components_raise \in BOOLEAN :
        LET after == reload_body(components_raise, TRUE)
        IN  /\ config' = after.config
            /\ reload' = Reloaded("reloader", after.logged)
            /\ UNCHANGED <<config_file, _config>>

(* ConfigManager.load_config: the Config it returns, None where it raises. *)
load_config ==
    IF config_file.kind # "document" THEN None
    ELSE IF safe_load(config_file.doc) \in ValidConfigs
         THEN safe_load(config_file.doc)
         ELSE None

(* ConfigManager.reload_config: self._config = None; self.load_config() *)
reload_config ==
    /\ _config' = load_config
    /\ reload' = Reloaded("manager", IF load_config = None THEN "failed" ELSE "reloaded")
    /\ UNCHANGED <<config_file, config>>

(* The file is edited, replaced or removed. *)
WriteConfigFile ==
    /\ \E content \in FileContents \ {config_file} : config_file' = content
    /\ UNCHANGED <<config, _config, reload>>

CfgInit ==
    /\ config_file = [kind |-> "document", doc |-> "c0"]
    /\ config = "c0"
    /\ _config = "c0"
    /\ reload = [by |-> None, file |-> [kind |-> "document", doc |-> "c0"],
                 logged |-> None, daemon |-> "c0", manager |-> "c0"]

(***************************************************************************)
(* Specifications                                                          *)
(***************************************************************************)
(* The components that the specifications of the detector, the engine and *)
(* the orchestrator leave alone.                                          *)
(***************************************************************************)
(* The main loop of the daemon: the inactivity fallback                    *)
(* (orchestration/monitor_loop.py, main.py)                                *)
(***************************************************************************)
(* inactivity_idle_sec in the model (5.0 in the defaults). *)
InactivityIdleSec == 2

VARIABLE last_activity   \* age of the tailer's _stats['last_activity'], Never for None

loopVars == <<last_activity>>

(* A cycle of the tailer read lines: each is classified and its detection *)
(* handed to process_detection (on_new_log_line).                          *)
on_new_log_line(state) ==
    /\ ~idle_only
    /\ last_activity' = 0
    /\ process_detection(state)

(* The fallback manufacturing its detection before any line was read. *)
inactive_from_start == last_activity = Never \/ last_activity >= InactivityIdleSec

(* The inactivity fallback manufactures an IDLE detection. *)
inactive == last_activity # Never /\ last_activity >= InactivityIdleSec

(* process_monitoring_cycle(daemon): one cycle of the main loop. *)
process_monitoring_cycle ==
    /\ IF inactive
       THEN process_detection(IDLE)
       ELSE UNCHANGED <<orchVars, engVars>>
    /\ UNCHANGED last_activity

(* The tailer reads no line any more. *)
LogStaysSilent ==
    /\ LogFallsSilent
    /\ UNCHANGED last_activity

(* One second passes for the daemon, its engine and its tailer. *)
LoopTick ==
    /\ Tick
    /\ last_activity' = Older(last_activity, InactivityIdleSec)

LoopInit == last_activity = Never

restVars == <<chVars, tailVars, retryVars, selVars, cfgVars, loopVars>>

vars == <<detVars, engVars, orchVars, restVars>>

Init ==
    /\ DetInit /\ EngInit /\ OrchInit /\ ChInit /\ TailInit /\ RetryInit /\ SelInit
    /\ CfgInit /\ LoopInit

(* The classifier on a tailed log: lines arrive, time passes, detect_state *)
(* runs on the buffered context.                                           *)
NextDetector ==
    \/ (\E kind \in LineKinds : AddLine(kind)) /\ UNCHANGED <<engVars, orchVars, restVars>>
    \/ detect_state /\ UNCHANGED <<engVars, orchVars, restVars>>
    \/ detect_state_error /\ UNCHANGED <<engVars, orchVars, restVars>>
    \/ DetTick /\ UNCHANGED <<engVars, orchVars, restVars>>

SpecDetector == Init /\ [][NextDetector]_vars

(* The state machine alone, fed with detections. *)
NextHysteresis ==
    \/ FeedDetection /\ UNCHANGED <<engVars, orchVars, restVars>>
    \/ reset_state /\ UNCHANGED <<engVars, orchVars, restVars>>
    \/ DetTick /\ UNCHANGED <<engVars, orchVars, restVars>>

SpecHysteresis == Init /\ [][NextHysteresis]_vars

(* The engine called from several threads. *)
NextEngine ==
    \/ (\E thread \in Threads : CallExecuteRecovery(thread)) /\ UNCHANGED <<detVars, orchVars, restVars>>
    \/ (\E thread \in Threads : EnterExecuteAction(thread)) /\ UNCHANGED <<detVars, orchVars, restVars>>
    \/ (\E i \in DOMAIN workers : _execute_action_worker(i)) /\ UNCHANGED <<detVars, orchVars, restVars>>
    \/ enable /\ UNCHANGED <<detVars, orchVars, restVars>>
    \/ disable /\ UNCHANGED <<detVars, orchVars, restVars>>
    \/ EngTick /\ UNCHANGED <<detVars, orchVars, restVars>>

SpecEngine == Init /\ [][NextEngine]_vars

(* The daemon in steady state: detections, the completion marker in the   *)
(* log, the engine's worker, time.                                         *)
NextIdle ==
    \/ (\E state \in DetectedStates : Detection(state)) /\ UNCHANGED <<detVars, restVars>>
    \/ Metadata("clear_completed") /\ UNCHANGED <<detVars, restVars>>
    \/ WorkerEnds /\ UNCHANGED <<detVars, restVars>>
    \/ LogFallsSilent /\ UNCHANGED <<detVars, restVars>>
    \/ Tick /\ UNCHANGED <<detVars, restVars>>

SpecIdle == Init /\ [][NextIdle]_vars

(* Time passes, the monitor loop keeps handing over the IDLE detection of  *)
(* its inactivity fallback, and a worker thread comes to its end.         *)
SpecIdleFair ==
    /\ SpecIdle
    /\ WF_vars(Tick /\ UNCHANGED <<detVars, restVars>>)
    /\ WF_vars(Detection(IDLE) /\ UNCHANGED <<detVars, restVars>>)
    /\ WF_vars(WorkerEnds /\ UNCHANGED <<detVars, restVars>>)

(* The daemon with session bootstrap: all metadata and the timer threads, *)
(* on the idle path (detections of IDLE and ACTIVE).                      *)
BootstrapDetectedStates == {IDLE, ACTIVE}

NextBootstrap ==
    \/ (\E state \in BootstrapDetectedStates : Detection(state)) /\ UNCHANGED <<detVars, restVars>>
    \/ (\E meta \in MetaKinds : Metadata(meta)) /\ UNCHANGED <<detVars, restVars>>
    \/ _delayed_clear /\ UNCHANGED <<detVars, restVars>>
    \/ _fallback_prompt /\ UNCHANGED <<detVars, restVars>>
    \/ _delayed_prompt_after_clear /\ UNCHANGED <<detVars, restVars>>
    \/ WorkerEnds /\ UNCHANGED <<detVars, restVars>>
    \/ Tick /\ UNCHANGED <<detVars, restVars>>

SpecBootstrap == Init /\ [][NextBootstrap]_vars

(* The command channel used from several threads: a caller of connect()   *)
(* and disconnect(), a sender inside _send_with_retry, the reconnection    *)
(* threads, and the remote endpoint.                                       *)
notChannel == <<detVars, engVars, orchVars, tailVars, retryVars, selVars, cfgVars, loopVars>>

NextChannel ==
    \/ connect /\ UNCHANGED notChannel
    \/ disconnect /\ UNCHANGED notChannel
    \/ send_command /\ UNCHANGED notChannel
    \/ (\E outcome \in SendOutcomes : _send_message(outcome)) /\ UNCHANGED notChannel
    \/ SenderWakes /\ UNCHANGED notChannel
    \/ SenderReconnects /\ UNCHANGED notChannel
    \/ (\E t \in ReconnectThreads : WorkerLoop(t)) /\ UNCHANGED notChannel
    \/ (\E t \in ReconnectThreads : WorkerWakes(t)) /\ UNCHANGED notChannel
    \/ (\E t \in ReconnectThreads : WorkerMarks(t)) /\ UNCHANGED notChannel
    \/ (\E t \in ReconnectThreads : WorkerConnects(t)) /\ UNCHANGED notChannel
    \/ (\E t \in ReconnectThreads : WorkerExits(t)) /\ UNCHANGED notChannel
    \/ EndpointChanges /\ UNCHANGED notChannel

SpecChannel == Init /\ [][NextChannel]_vars

(* Every thread that has a step to take takes it: the sender goes on      *)
(* through its retry loop, a reconnection thread through its loop. The     *)
(* endpoint comes up again when it is down.                                *)
SpecChannelFair ==
    /\ SpecChannel
    /\ WF_vars((\E outcome \in SendOutcomes : _send_message(outcome)) /\ UNCHANGED notChannel)
    /\ WF_vars(SenderWakes /\ UNCHANGED notChannel)
    /\ WF_vars(SenderReconnects /\ UNCHANGED notChannel)
    /\ \A t \in ReconnectThreads : WF_vars(_reconnect_worker(t) /\ UNCHANGED notChannel)
    /\ WF_vars(EndpointComesUp /\ UNCHANGED notChannel)

(* The tailer polling a file that is written to and rotated. *)
notTail == <<detVars, engVars, orchVars, chVars, retryVars, selVars, cfgVars, loopVars>>

NextTail ==
    \/ (\E check_due \in BOOLEAN : _monitoring_worker(check_due)) /\ UNCHANGED notTail
    \/ AppendLine /\ UNCHANGED notTail
    \/ Rotate /\ UNCHANGED notTail

SpecTail == Init /\ [][NextTail]_vars

(* The polling loop keeps running and its file check comes due again and  *)
(* again.                                                                  *)
SpecTailFair ==
    /\ SpecTail
    /\ WF_vars(_monitoring_worker(TRUE) /\ UNCHANGED notTail)

(* The tailer on one file whose writer writes lines whole or in two parts. *)
NextPartial ==
    \/ (\E check_due \in BOOLEAN : _monitoring_worker(check_due)) /\ UNCHANGED notTail
    \/ AppendLine /\ UNCHANGED notTail
    \/ BeginLine /\ UNCHANGED notTail
    \/ EndLine /\ UNCHANGED notTail

SpecPartial == Init /\ [][NextPartial]_vars

SpecPartialFair ==
    /\ SpecPartial
    /\ WF_vars(_monitoring_worker(TRUE) /\ UNCHANGED notTail)

(* The tailer on a file that is appended to and truncated in place.        *)
NextTruncation ==
    \/ (\E check_due \in BOOLEAN : _monitoring_worker(check_due)) /\ UNCHANGED notTail
    \/ AppendLine /\ UNCHANGED notTail
    \/ Truncate /\ UNCHANGED notTail

SpecTruncation == Init /\ [][NextTruncation]_vars

SpecTruncationFair ==
    /\ SpecTruncation
    /\ WF_vars(_monitoring_worker(TRUE) /\ UNCHANGED notTail)

(* The tailer on a path whose file is removed, created again and made      *)
(* unreadable or readable.                                                 *)
NextFaults ==
    \/ (\E check_due \in BOOLEAN : _monitoring_worker(check_due)) /\ UNCHANGED notTail
    \/ AppendLine /\ UNCHANGED notTail
    \/ Remove /\ UNCHANGED notTail
    \/ Create /\ UNCHANGED notTail
    \/ Chmod /\ UNCHANGED notTail

SpecFaults == Init /\ [][NextFaults]_vars

SpecFaultsFair ==
    /\ SpecFaults
    /\ WF_vars(_monitoring_worker(TRUE) /\ UNCHANGED notTail)

(* The engine called by one thread at a time, its history holding more    *)
(* than one execution, the worker going through its attempts.              *)
notSerial == <<detVars, orchVars, chVars, tailVars, selVars, cfgVars, loopVars>>

SerialInit ==
    /\ engine_config = EngineConfig(SerialHistoryLimit, TRUE)
    /\ enabled = TRUE
    /\ executing = FALSE
    /\ current_execution = NoExecution
    /\ workers = << >>
    /\ execution_history = << >>
    /\ calls = [thread \in Threads |-> NoCall]
    /\ DetInit /\ OrchInit /\ ChInit /\ TailInit /\ RetryInit /\ SelInit /\ CfgInit /\ LoopInit

NextSerial ==
    \/ Dispatch /\ UNCHANGED notSerial
    \/ (\E outcome \in AttemptOutcomes : _execute_single_attempt(outcome)) /\ UNCHANGED notSerial
    \/ WorkerReturns /\ UNCHANGED notSerial
    \/ enable /\ UNCHANGED <<notSerial, retryVars>>
    \/ disable /\ UNCHANGED <<notSerial, retryVars>>
    \/ EngTick /\ UNCHANGED <<notSerial, retryVars>>

SpecEngineSerial == SerialInit /\ [][NextSerial]_vars

(* Every call of the command channel returns, so an attempt of the retry   *)
(* loop comes to its end, and the worker thread runs on after the loop.    *)
SpecEngineSerialFair ==
    /\ SpecEngineSerial
    /\ WF_vars((\E outcome \in AttemptOutcomes : _execute_single_attempt(outcome))
                   /\ UNCHANGED notSerial)
    /\ WF_vars(WorkerReturns /\ UNCHANGED notSerial)

(* The same engine with a caller of cancel_current_execution. *)
NextCancel ==
    \/ NextSerial
    \/ cancel_current_execution /\ UNCHANGED notSerial

SpecCancel == SerialInit /\ [][NextCancel]_vars

(* _select_best_action on every strategy, context and setting of the      *)
(* confirmation flag.                                                      *)
notSelection == <<detVars, orchVars, chVars, tailVars, retryVars, cfgVars, loopVars>>

SelectionInit ==
    /\ \E require_confirmation \in BOOLEAN :
           engine_config = EngineConfig(ExecutionHistoryLimit, require_confirmation)
    /\ enabled = TRUE
    /\ executing = FALSE
    /\ current_execution = NoExecution
    /\ workers = << >>
    /\ execution_history = << >>
    /\ calls = [thread \in Threads |-> NoCall]
    /\ sel_strategy \in SelStrategies
    /\ sel_ctx \in SelContexts
    /\ sel_action = Pending
    /\ DetInit /\ OrchInit /\ ChInit /\ TailInit /\ RetryInit /\ CfgInit /\ LoopInit

NextSelection == Select /\ UNCHANGED <<notSelection, engVars>>

SpecSelection == SelectionInit /\ [][NextSelection]_vars

(* The configuration file changes and is reloaded, by the daemon (in      *)
(* either of its two versions) and through the ConfigManager.             *)
notConfig == <<detVars, engVars, orchVars, chVars, tailVars, retryVars, selVars,
              loopVars>>

NextConfig ==
    \/ WriteConfigFile /\ UNCHANGED notConfig
    \/ _reload_config_internal /\ UNCHANGED notConfig
    \/ reload_config_internal /\ UNCHANGED notConfig
    \/ reload_config /\ UNCHANGED notConfig

SpecConfig == Init /\ [][NextConfig]_vars

(* The recovery path of the daemon: detections of the three states that  *)
(* trigger a recovery and of ACTIVE, the engine's worker, time.           *)
RecoveryDetectedStates == recovery_states \cup {ACTIVE}

NextRecovery ==
    \/ (\E state \in RecoveryDetectedStates : Detection(state)) /\ UNCHANGED <<detVars, restVars>>
    \/ WorkerEnds /\ UNCHANGED <<detVars, restVars>>
    \/ Tick /\ UNCHANGED <<detVars, restVars>>

SpecRecovery == Init /\ [][NextRecovery]_vars

(* The arming of the bootstrap: the preflight at start-up, all metadata,  *)
(* the timer threads, the engine's worker, time.                          *)
NextArming ==
    \/ schedule_preflight_bootstrap_if_needed /\ UNCHANGED <<detVars, restVars>>
    \/ (\E meta \in MetaKinds : Metadata(meta)) /\ UNCHANGED <<detVars, restVars>>
    \/ _delayed_clear /\ UNCHANGED <<detVars, restVars>>
    \/ _fallback_prompt /\ UNCHANGED <<detVars, restVars>>
    \/ _delayed_prompt_after_clear /\ UNCHANGED <<detVars, restVars>>
    \/ WorkerEnds /\ UNCHANGED <<detVars, restVars>>
    \/ Tick /\ UNCHANGED <<detVars, restVars>>

SpecArming == Init /\ [][NextArming]_vars

(* The bootstrap sequence of a daemon whose detections all name IDLE: the  *)
(* preflight at start-up arms it, the log shows the completion marker,     *)
(* the timer threads run, the engine's worker ends, time passes.           *)
NextCompletion ==
    \/ schedule_preflight_bootstrap_if_needed /\ UNCHANGED <<detVars, restVars>>
    \/ Detection(IDLE) /\ UNCHANGED <<detVars, restVars>>
    \/ Metadata("clear_completed") /\ UNCHANGED <<detVars, restVars>>
    \/ _delayed_clear /\ UNCHANGED <<detVars, restVars>>
    \/ _fallback_prompt /\ UNCHANGED <<detVars, restVars>>
    \/ _delayed_prompt_after_clear /\ UNCHANGED <<detVars, restVars>>
    \/ WorkerEnds /\ UNCHANGED <<detVars, restVars>>
    \/ Tick /\ UNCHANGED <<detVars, restVars>>

SpecCompletion == Init /\ [][NextCompletion]_vars

(* IDLE detections keep being processed, a worker thread comes to its end *)
(* and time passes; nothing is asked of the timer threads.                 *)
SpecCompletionFair ==
    /\ SpecCompletion
    /\ WF_vars(Detection(IDLE) /\ UNCHANGED <<detVars, restVars>>)
    /\ WF_vars(WorkerEnds /\ UNCHANGED <<detVars, restVars>>)
    /\ WF_vars(Tick /\ UNCHANGED <<detVars, restVars>>)

(* The daemon on a log that is written to and then falls silent: lines,   *)
(* the cycles of the main loop with their inactivity fallback, the         *)
(* completion marker, the engine's worker, time.                           *)
notLoop == <<detVars, chVars, tailVars, retryVars, selVars, cfgVars>>

NextInactivity ==
    \/ (\E state \in BootstrapDetectedStates : on_new_log_line(state)) /\ UNCHANGED notLoop
    \/ process_monitoring_cycle /\ UNCHANGED notLoop
    \/ Metadata("clear_completed") /\ UNCHANGED <<notLoop, loopVars>>
    \/ WorkerEnds /\ UNCHANGED <<notLoop, loopVars>>
    \/ LogStaysSilent /\ UNCHANGED notLoop
    \/ LoopTick /\ UNCHANGED notLoop

SpecInactivity == Init /\ [][NextInactivity]_vars

(* The main loop keeps cycling, time passes and a worker thread comes to   *)
(* its end.                                                                *)
SpecInactivityFair ==
    /\ SpecInactivity
    /\ WF_vars(process_monitoring_cycle /\ UNCHANGED notLoop)
    /\ WF_vars(LoopTick /\ UNCHANGED notLoop)
    /\ WF_vars(WorkerEnds /\ UNCHANGED <<notLoop, loopVars>>)

(***************************************************************************)
(* Properties of the state machine and the classifier                      *)
(***************************************************************************)
(* The confidence bar of the priority rule, by the ranks the              *)
(* specification gives the states.                                         *)
Rank(state) ==
    IF state = CONTEXT_PRESSURE THEN 4
    ELSE IF state = INPUT_WAITING THEN 3
    ELSE IF state = ERROR THEN 2
    ELSE IF state = UNKNOWN THEN 0
    ELSE 1

Bar(from, to) ==
    IF Rank(to) > Rank(from) THEN 500
    ELSE IF Rank(to) = Rank(from) THEN 700
    ELSE 800

Transitions == {state_history[i] : i \in DOMAIN state_history}

(* C7, as claimed: every recorded transition was accepted after the        *)
(* debounce interval had elapsed since the previous recorded transition    *)
(* and with a confidence that met the priority bar.                        *)
C7_EveryTransitionDebounced ==
    \A t \in Transitions :
        /\ t.elapsed = Never \/ t.elapsed >= DebounceTime
        /\ t.confidence >= Bar(t.from_state, t.to_state)

(* C7, amended: every recorded transition out of a state other than        *)
(* UNKNOWN was accepted after the debounce interval had elapsed since the  *)
(* previous recorded transition and with a confidence that met the         *)
(* priority bar; a transition out of UNKNOWN (at start or after            *)
(* reset_state) was accepted on confidence >= minimum confidence alone;    *)
(* no transition from IDLE to ACTIVE is recorded below 0.7.                *)
C7_TransitionsOutOfKnownStateDebounced ==
    \A t \in Transitions :
        /\ IF t.from_state = UNKNOWN THEN t.confidence >= MinConfidence
           ELSE /\ t.elapsed # Never
                /\ t.elapsed >= DebounceTime
                /\ t.confidence >= Bar(t.from_state, t.to_state)
        /\ (t.from_state = IDLE /\ t.to_state = ACTIVE) => t.confidence >= 700

(* An ACTIVE detection at 0.6 was just rejected in state IDLE, the         *)
(* debounce interval over, a debounced transition into IDLE on record.     *)
C7_Witness ==
    /\ just_detected
    /\ detection.state = ACTIVE
    /\ detection.confidence = 600
    /\ current_state = IDLE
    /\ state_change_age = DebounceTime
    /\ \E t \in Transitions :
          t.from_state # UNKNOWN /\ t.to_state = IDLE /\ t.elapsed = DebounceTime

(* The ordered rules of the specification for one decision. *)
OrderedRules(current, candidate, confidence, elapsed) ==
    IF current = UNKNOWN /\ confidence >= MinConfidence THEN TRUE
    ELSE IF confidence < MinConfidence THEN FALSE
    ELSE IF candidate = current THEN FALSE
    ELSE IF elapsed < DebounceTime THEN FALSE
    ELSE confidence >= Bar(current, candidate)

(* C8: in every detect_state call the state changes exactly when the       *)
(* ordered rules accept the detection, the elapsed time being taken since  *)
(* the last recorded transition.                                           *)
C8_DecisionFollowsOrderedRules ==
    [][just_detected' =>
         ((current_state' # current_state) <=>
              OrderedRules(current_state, detection'.state,
                           detection'.confidence, since_transition))]_vars

(* An equal-priority candidate was just accepted at exactly 0.7, right     *)
(* after the debounce interval.                                            *)
C8_Witness ==
    /\ just_detected
    /\ current_state = COMPLETED
    /\ detection.state = COMPLETED
    /\ detection.confidence = 700
    /\ since_transition = 0
    /\ \E t \in Transitions :
          /\ t.from_state = IDLE /\ t.to_state = COMPLETED
          /\ t.confidence = 700 /\ t.elapsed = DebounceTime

(* C9: every StateDetection the classifier returns has a confidence in     *)
(* [0, 1].                                                                 *)
C9_ConfidenceInUnitInterval ==
    /\ detection.confidence >= 0 /\ detection.confidence <= 1000
    /\ last_detection.confidence >= 0 /\ last_detection.confidence <= 1000

(* The classifier returned a detection whose winning score was above 1. *)
C9_Witness ==
    /\ just_detected
    /\ detection.state = CONTEXT_PRESSURE
    /\ detection.confidence = 1000
    /\ _score_state("context_pressure", context, line_age) > 1000

(* C10, as claimed: detect_state called again on the same lines at the     *)
(* same clock returns the detection it returned before.                    *)
C10_ClassifierIdempotent ==
    [][(just_detected /\ just_detected') => detection' = detection]_vars

(***************************************************************************)
(* Properties of the recovery engine                                       *)
(***************************************************************************)
(* C1, as claimed: two execution workers never run concurrently, whatever  *)
(* threads call execute_recovery.                                          *)
C1_AtMostOneWorker == Len(workers) <= 1

(* C6, as claimed: an execution dispatched for a detected state, unless    *)
(* it is the idle prompt, starts no sooner than cooldown_period after the  *)
(* previous execution dispatched for that state ended.                     *)
C6_CooldownPerDetectedState ==
    [][Len(workers') > Len(workers) =>
         LET execution == workers'[Len(workers')]
             since == SincePreviousEnd(execution.detected)
         IN  \/ execution.action_type = PROVIDE_INPUT /\ execution.detected = IDLE
             \/ since = Never
             \/ since >= CooldownPeriod]_vars

(***************************************************************************)
(* Properties of the orchestrator                                          *)
(***************************************************************************)
(* C2, as claimed: between two non-IDLE detections the orchestrator        *)
(* dispatches at most one clear and at most one prompt.                    *)
C2_OncePerIdlePeriod == clears_in_period <= 1 /\ prompts_in_period <= 1

(* C3, as claimed: with no clear sent in the idle period, no bootstrap     *)
(* pending and the engine ready to accept, the IDLE detection that brings  *)
(* the streak to consecutive-idle-required leaves exactly one clear and no *)
(* prompt dispatched in the period.                                        *)
C3_TwoPhaseIdle ==
    [][(/\ _consec_idle_count < ConsecIdleRequired
        /\ _consec_idle_count' = ConsecIdleRequired
        /\ clears_in_period = 0
        /\ prompts_in_period = 0
        /\ ~_pending_bootstrap
        /\ enabled /\ ~executing /\ ~_is_in_cooldown(IDLE))
       => (clears_in_period' = 1 /\ prompts_in_period' = 0)]_vars

(* C4, as claimed: in one bootstrap sequence the timer threads and the     *)
(* IDLE path together dispatch at most one clear and at most one prompt.   *)
C4_OncePerBootstrap == boot_clears <= 1 /\ boot_prompts <= 1

(* C5: once the log is silent with a clear dispatched whose completion was *)
(* not observed and no prompt sent since, a prompt is eventually           *)
(* dispatched, the clear then being at least the fallback window old.      *)
C5_FallbackBypass ==
    (/\ idle_only
     /\ _last_idle_clear_at # Never
     /\ _clear_completed_at # AFTER_CLEAR
     /\ prompts_in_period = 0)
    ~> (/\ prompts_in_period > 0
        /\ _last_idle_clear_at # Never
        /\ _last_idle_clear_at >= ClearCompletionFallbackSec)

(* The log is silent, the completion of the clear of this idle period was  *)
(* never observed, and the prompt has been dispatched after the fallback   *)
(* window.                                                                 *)
C5_Witness ==
    /\ idle_only
    /\ clears_in_period = 1
    /\ _clear_completed_at = None
    /\ prompts_in_period = 1
    /\ _last_idle_prompt_at = 0
    /\ _last_idle_clear_at = ClearCompletionFallbackSec

(***************************************************************************)
(* Properties of the command channel                                       *)
(***************************************************************************)
AliveThreads == {t \in ReconnectThreads : is_alive(t)}

(* C11: at most one background reconnection loop of the channel is alive   *)
(* at any time, whatever the interleaving of send failures, connection     *)
(* errors, connect() and disconnect().                                     *)
C11_AtMostOneReconnectLoop == Cardinality(AliveThreads) <= 1

(* C12: a transport failure on the connected channel with auto-reconnect   *)
(* is followed by CONNECTED, when the endpoint accepts connections from    *)
(* some time on and disconnect() is not called.                            *)
C12_ReconnectionLiveness ==
    <>[]endpoint_up => (lost ~> ~lost)

(***************************************************************************)
(* Properties of the log tailer                                            *)
(***************************************************************************)
Deliveries(line) == Cardinality({k \in DOMAIN delivered : delivered[k] = line})

NewFiles == FileIds \ {1}

(* C13: when the tailed file is replaced by a file with a new identity,    *)
(* every line appended to the new file is delivered exactly once and the   *)
(* rotation is counted. The path names the last file from the rotation on. *)
C13_RotationDeliversNewFile ==
    /\ \A i \in 1..MaxFileLines :
           (path_file = MaxFiles /\ files[MaxFiles] >= i)
               ~> (Deliveries(<<MaxFiles, i>>) = 1)
    /\ (path_file = MaxFiles) ~> (file_rotations >= 1)
    /\ [](\A f \in NewFiles : \A i \in 1..MaxFileLines : Deliveries(<<f, i>>) <= 1)

(* C14: the LogContext holds at most its capacity of lines, and they are   *)
(* the most recently added ones in insertion order.                        *)
C14_ContextHoldsMostRecent ==
    /\ Len(_lines) <= MaxContextLines
    /\ _lines = LastN(delivered, MaxContextLines)

C14_Witness ==
    /\ Len(delivered) > MaxContextLines
    /\ Len(_lines) = MaxContextLines
    /\ _lines[1] # delivered[1]

(***************************************************************************)
(* Properties of the recovery engine's worker, history and selection       *)
(***************************************************************************)
LastExecution == execution_history[Len(execution_history)]

RetryDiscipline(most_attempts) ==
    /\ retry.attempts <= most_attempts
    /\ ~retry.after_success
    /\ retry.result # None => (retry.result = SUCCESS <=> retry.succeeded)
    /\ (workers = << >> /\ retry.attempts > 0)
           => (LastExecution.result = SUCCESS <=> retry.succeeded)

(* C15: an execution makes at most max_retries attempts of its action,     *)
(* makes no attempt after one that succeeded, and ends with SUCCESS        *)
(* exactly when one of its attempts succeeded.                             *)
C15_AtMostMaxRetriesAttempts == RetryDiscipline(max_retries)

(* C15, as the code has it: at most max_retries + 1 attempts (one attempt  *)
(* and max_retries retries), none after a success, SUCCESS exactly when    *)
(* an attempt succeeded.                                                   *)
C15_OneAttemptAndMaxRetriesRetries == RetryDiscipline(max_retries + 1)

C15_Witness ==
    /\ workers = << >>
    /\ retry.attempts = max_retries + 1
    /\ retry.succeeded
    /\ LastExecution.result = SUCCESS

(* C16: the history never holds more than execution_history_limit          *)
(* entries; an execution that ends is filed last, and of the entries held  *)
(* before it the most recent ones stay, in their order.                    *)
C16_HistoryKeepsNewest ==
    /\ [](Len(execution_history) <= engine_config.execution_history_limit)
    /\ [][Len(workers') < Len(workers) =>
            LET limit == engine_config.execution_history_limit
                filed == execution_history'[Len(execution_history')]
            IN  /\ Len(execution_history') = Min(Len(execution_history) + 1, limit)
                /\ filed.action_type = workers[1].action_type
                /\ filed.detected = workers[1].detected
                /\ filed.result = retry.result
                /\ filed.end_age = 0
                /\ SubSeq(execution_history', 1, Len(execution_history') - 1)
                       = LastN(execution_history, limit - 1)]_vars

C16_Witness ==
    /\ ended > engine_config.execution_history_limit
    /\ Len(execution_history) = engine_config.execution_history_limit
    /\ execution_history[1] # LastExecution

(* An action the engine does not dispatch in this context. *)
Gated(action, ctx) ==
    \/ /\ action.requires_confirmation
       /\ engine_config.require_confirmation_for_destructive_actions
    \/ /\ action.action_type = PROVIDE_INPUT
       /\ ~("should_send_idle_prompt" \in DOMAIN ctx)
       /\ ctx.detection_evidence # "yesno"

InPriorityOrder(actions) ==
    \A a, b \in DOMAIN actions : a < b => actions[a].priority >= actions[b].priority

(* action is the first of the strategy's actions that is not gated. *)
FirstOpenAction(strategy, ctx, action) ==
    \E j \in DOMAIN strategy.actions :
        /\ action = strategy.actions[j]
        /\ ~Gated(action, ctx)
        /\ \A i \in 1..(j - 1) : Gated(strategy.actions[i], ctx)

Matches(strategy, state, ctx) ==
    /\ state \in strategy.target_states
    /\ \A key \in DOMAIN strategy.conditions :
          key \in DOMAIN ctx /\ ctx[key] = strategy.conditions[key]

(* C17: the execution dispatched for a CONTEXT_PRESSURE detection on an    *)
(* enabled, idle engine is of kind compact; whatever the detection, its    *)
(* action is the first not gated action, in priority order, of the first   *)
(* registered strategy that matches the state and the context.             *)
C17_FirstStrategyFirstOpenAction ==
    /\ (enabled /\ ~executing) =>
           execute_recovery(CONTEXT_PRESSURE, PlainContext("other")).action_type = COMPACT
    /\ workers # << >> =>
        LET state == retry.request.state
            ctx == retry.request.ctx
        IN  /\ \E k \in DOMAIN _strategies :
                   /\ Matches(_strategies[k], state, ctx)
                   /\ \A i \in 1..(k - 1) : ~Matches(_strategies[i], state, ctx)
                   /\ InPriorityOrder(_strategies[k].actions)
                   /\ \E action \in {_strategies[k].actions[j] : j \in DOMAIN _strategies[k].actions} :
                          /\ FirstOpenAction(_strategies[k], ctx, action)
                          /\ workers[1].action_type = action.action_type
                          /\ workers[1].target_state = action.target_state
            /\ state = CONTEXT_PRESSURE => workers[1].action_type = COMPACT

C17_Witness ==
    /\ workers # << >>
    /\ retry.request.state = CONTEXT_PRESSURE
    /\ workers[1].action_type = COMPACT

ReloadFailed ==
    /\ reload.by # None
    /\ \/ reload.file.kind # "document"
       \/ safe_load(reload.file.doc) \notin ValidConfigs

(* C19: a reload that fails (file missing, unparsable or invalid) leaves   *)
(* the configuration in use as it was before the reload.                   *)
C19_FailedReloadKeepsConfig ==
    ReloadFailed => (config = reload.daemon /\ _config = reload.manager)

(***************************************************************************)
(* Properties of the global decision throttle                              *)
(***************************************************************************)
(* C20: a detection whose state equals the last decided state, less than   *)
(* decision-min-interval after the last decision, dispatches nothing and   *)
(* leaves the streak counters, the idle-period-cleared flag, the bootstrap *)
(* flags, the clear and prompt timestamps, the last decided state and the  *)
(* last decision timestamp unchanged.                                      *)
C20_ThrottledDetectionChangesNothing ==
    [][\A state \in DetectedStates :
         (/\ _last_detected_state = state
          /\ _last_decision_ts # Never
          /\ _last_decision_ts < DecisionMinInterval
          /\ Detection(state))
         => /\ UNCHANGED engVars
            /\ UNCHANGED <<_consec_idle_count, _consec_active_count,
                           _idle_period_cleared, _pending_bootstrap,
                           _bootstrap_cleared, _last_idle_clear_at,
                           _last_idle_prompt_at, _last_detected_state,
                           _last_decision_ts>>]_vars

(* An IDLE detection was stopped by the throttle at a moment when, but for *)
(* the throttle, it would have completed the streak and dispatched the     *)
(* clear: the engine is free and nothing was cleared in this idle period.  *)
C20_Witness ==
    /\ throttled
    /\ _last_detected_state = IDLE
    /\ _last_decision_ts # Never
    /\ _last_decision_ts < DecisionMinInterval
    /\ _consec_idle_count = ConsecIdleRequired - 1
    /\ ~_idle_period_cleared
    /\ enabled /\ ~executing /\ workers = <<>>

(***************************************************************************)
(* Properties of the decision path                                         *)
(***************************************************************************)
(* The detection of this step is stopped by the global throttle. *)
GloballyThrottled(state) ==
    /\ _last_detected_state = state
    /\ _last_decision_ts # Never
    /\ _last_decision_ts < DecisionMinInterval

(* C21, as claimed: after a detection that the global throttle does not    *)
(* stop, the last decided state is the detection's state and the last      *)
(* decision timestamp is the time of the detection, whatever the outcome.  *)
C21_DecisionAlwaysRecorded ==
    [][\A state \in DetectedStates :
         (Detection(state) /\ ~GloballyThrottled(state))
         => (_last_detected_state' = state /\ _last_decision_ts' = 0)]_vars

(* C22: the streak grows by one with every IDLE detection the throttle    *)
(* lets through and by nothing else, a non-IDLE detection let through      *)
(* resets it to zero together with the idle-period-cleared flag, and the   *)
(* IDLE decision path dispatches a clear or a prompt only with the streak  *)
(* at consecutive-idle-required.                                           *)
C22_IdleStreakGatesDispatch ==
    /\ [][\A state \in DetectedStates :
            (~GloballyThrottled(state) /\ Detection(state))
            => IF state = IDLE
               THEN /\ _consec_idle_count' =
                           Min(_consec_idle_count + 1, ConsecIdleRequired)
                    /\ (Len(workers') > Len(workers)
                           => _consec_idle_count' >= ConsecIdleRequired)
               ELSE /\ _consec_idle_count' = 0
                    /\ ~_idle_period_cleared']_vars
    /\ [][_consec_idle_count' > _consec_idle_count => Detection(IDLE)]_vars

(* The IDLE detection that completed the streak has just dispatched the    *)
(* clear; the detection before it dispatched nothing.                      *)
C22_Witness ==
    /\ _last_detected_state = IDLE
    /\ _last_decision_ts = 0
    /\ _consec_idle_count = ConsecIdleRequired
    /\ _last_idle_clear_at = 0
    /\ clears_in_period = 1
    /\ Len(workers) = 1
    /\ workers[1].action_type = CLEAR_ERROR

(* The entry of state in _last_recovery_by_state is set to the current     *)
(* time in this step.                                                      *)
Stamped(state) ==
    /\ state \in DOMAIN _last_recovery_by_state'
    /\ _last_recovery_by_state'[state] = 0
    /\ ~(state \in DOMAIN _last_recovery_by_state
           /\ _last_recovery_by_state[state] = 0)

(* C23: a detection of a recovery state less than the minimum recovery     *)
(* interval after the last recovery dispatched for that state dispatches    *)
(* nothing, and the last-recovery timestamp of a state is set only by a     *)
(* detection of that state for which the engine started an execution.      *)
C23_PerStateCooldown ==
    /\ [][\A state \in recovery_states :
            (/\ state \in DOMAIN _last_recovery_by_state
             /\ _last_recovery_by_state[state] < MinRecoveryInterval
             /\ Detection(state))
            => UNCHANGED <<engVars, _last_recovery_by_state>>]_vars
    /\ [][\A state \in recovery_states :
            Stamped(state)
            => /\ Detection(state)
               /\ Len(workers') = Len(workers) + 1
               /\ workers'[Len(workers')].detected = state]_vars
    /\ [][\A state \in RecoveryDetectedStates :
            (Detection(state) /\ Len(workers') = Len(workers))
            => UNCHANGED _last_recovery_by_state]_vars

(* A detection of ERROR was stopped by the per-state throttle alone: the   *)
(* ERROR recovery is younger than the interval and its worker has ended,   *)
(* the last decision was for ACTIVE, and the active streak was reset by    *)
(* the stopped detection.                                                  *)
C23_Witness ==
    /\ ERROR \in DOMAIN _last_recovery_by_state
    /\ _last_recovery_by_state[ERROR] # Never
    /\ _last_recovery_by_state[ERROR] < MinRecoveryInterval
    /\ _last_detected_state = ACTIVE
    /\ _consec_active_count = 0
    /\ workers = <<>>
    /\ enabled /\ ~executing

(* This step is a detection of IDLE that dispatches the prompt. *)
IdlePathPrompts ==
    /\ Len(workers') = Len(workers) + 1
    /\ workers'[Len(workers')].action_type = PROVIDE_INPUT
    /\ Detection(IDLE)

(* Gates (b) and (c) of phase 2: the clear is older than the quiet time,   *)
(* and its completion was observed at or after it unless the fallback      *)
(* window is over.                                                         *)
ClearGatesOpen ==
    /\ ~(_last_idle_clear_at # Never /\ _last_idle_clear_at < PostClearQuietSec)
    /\ ~(/\ _last_idle_clear_at # Never
         /\ _clear_completed_at # AFTER_CLEAR
         /\ _last_idle_clear_at < ClearCompletionFallbackSec)

EntersPhase1 ==
    /\ ~GloballyThrottled(IDLE)
    /\ _consec_idle_count + 1 >= ConsecIdleRequired
    /\ ~_idle_period_cleared \/ _pending_bootstrap
    /\ ~_bootstrap_cleared

(* C25: a detection marks the idle period cleared, stamps the clear and    *)
(* sets bootstrap-cleared only by starting the clear; an IDLE detection    *)
(* in phase 1 for which the engine returns none leaves the three fields    *)
(* unchanged, and one for which it returns an execution has dispatched     *)
(* the clear, never a prompt.                                              *)
C25_ClearRecordedOnlyOnDispatch ==
    /\ [][(EntersPhase1 /\ Detection(IDLE))
           => IF Len(workers') = Len(workers)
              THEN UNCHANGED <<engVars, _idle_period_cleared,
                               _last_idle_clear_at, _bootstrap_cleared,
                               _last_idle_prompt_at>>
              ELSE /\ Len(workers') = Len(workers) + 1
                   /\ workers'[Len(workers')].action_type = CLEAR_ERROR
                   /\ _idle_period_cleared'
                   /\ _last_idle_clear_at' = 0
                   /\ _pending_bootstrap => _bootstrap_cleared']_vars
    /\ [][\A state \in DetectedStates :
            (/\ \/ ~_idle_period_cleared /\ _idle_period_cleared'
                \/ _last_idle_clear_at # 0 /\ _last_idle_clear_at' = 0
                \/ ~_bootstrap_cleared /\ _bootstrap_cleared'
             /\ Detection(state))
            => /\ state = IDLE
               /\ Len(workers') = Len(workers) + 1
               /\ workers'[Len(workers')].action_type = CLEAR_ERROR]_vars

(* An IDLE detection has just completed the streak in an idle period not   *)
(* yet cleared, and the engine, in cooldown, returned none: nothing is     *)
(* running, no clear is stamped and no prompt was sent.                    *)
C25_Witness ==
    /\ _last_detected_state = IDLE
    /\ _last_decision_ts = 0
    /\ _consec_idle_count = ConsecIdleRequired
    /\ ~_idle_period_cleared
    /\ ~_bootstrap_cleared
    /\ _last_idle_clear_at # 0
    /\ since_prompt # 0
    /\ workers = <<>>
    /\ _is_in_cooldown(IDLE)

(***************************************************************************)
(* Properties of the bootstrap arming                                      *)
(***************************************************************************)
(* A BootstrapClearDelay thread is started in this step. *)
DelayedClearScheduled ==
    delayed_clear_timer = Never /\ delayed_clear_timer' = BootstrapClearDelay

OtherRequests ==
    {request \in EngineRequests :
        Get(request.ctx, "should_send_idle_prompt") # "True"}

(* C27, as claimed: an enabled engine with no execution in flight          *)
(* dispatches the prompt action for a context that requests an idle        *)
(* prompt whatever ended recently, and dispatches nothing for any other    *)
(* context while the detected state is in cooldown.                        *)
C27_OnlyIdlePromptBypassesCooldown ==
    /\ (enabled /\ ~executing)
          => execute_recovery(IDLE, PromptContext("other")).action_type = PROVIDE_INPUT
    /\ \A request \in OtherRequests :
          _is_in_cooldown(request.state)
          => execute_recovery(request.state, request.ctx) = NoAction

(***************************************************************************)
(* Properties of the channel's error handling                              *)
(***************************************************************************)
(* After this step the channel is in ERROR holding no socket, and a        *)
(* reconnection thread is inside its loop.                                 *)
TornDownAndReconnecting ==
    /\ _state' = ERROR
    /\ ~_socket'
    /\ \E t \in ReconnectThreads :
           reconnect_threads'[t].pc \notin {"exit", "dead"}

(* C28, as claimed: with auto-reconnect enabled, a connect() that fails    *)
(* and a socket error in a send on the connected channel each leave the    *)
(* channel in ERROR with no socket and a reconnection loop running.        *)
C28_ErrorsTearDownAndReconnect ==
    [][/\ (auto_reconnect /\ ~connect_returns /\ connect)
            => TornDownAndReconnecting
       /\ (auto_reconnect /\ is_connected /\ _send_message("socket_error"))
            => TornDownAndReconnecting]_vars

(* The file check has seen the truncation of the file the handle reads:   *)
(* the read position is back at 0 and the handle is where it was.          *)
TruncationSeen(f) ==
    /\ _file_handle = f
    /\ _file_stat = f
    /\ written[f] > files[f]
    /\ _current_position = 0
    /\ handle_offset > 0

(* C29: once the file check has seen a truncation and reset the read      *)
(* position to 0, every line in the file, each written after the           *)
(* truncation, is eventually delivered to the line callbacks.              *)
C29_LinesAfterTruncationDelivered ==
    \A f \in FileIds : \A n \in 1..(2 * MaxFileLines) :
        (TruncationSeen(f) /\ written[f] >= n /\ written[f] - files[f] < n)
            ~> (Deliveries(<<f, n>>) >= 1)

(* A poll that ends with no handle on a path that cannot be opened: the    *)
(* files and the path are as they were, so the step is the tailer's.       *)
FailedPoll ==
    /\ _file_handle' = 0
    /\ path_state # READABLE
    /\ UNCHANGED <<files, written, open_line, path_file, path_state>>

(* The tailer holds the file the path names and has delivered every line  *)
(* in it.                                                                  *)
CaughtUp ==
    /\ _file_handle = path_file
    /\ \A n \in 1..files[path_file] : Deliveries(LineAt(path_file, n)) >= 1

(* C30: the polling loop never ends; a poll whose open fails reports the   *)
(* error to the error callbacks and delivers no line; and once the path    *)
(* names a readable file for good, the tailer opens it on a later poll     *)
(* and keeps delivering every line in it.                                  *)
C30_FaultsNeverStopTheTailer ==
    /\ [][ /\ monitor_alive'
           /\ FailedPoll => /\ errors' = Min(errors + 1, MaxErrors)
                            /\ delivered' = delivered ]_vars
    /\ (<>[](path_state = READABLE)) => []<>CaughtUp

(***************************************************************************)
(* Properties of the main loop                                             *)
(***************************************************************************)
(* A step of the daemon on a silent log that counts an IDLE detection or   *)
(* hands an execution to the engine.                                       *)
FallbackDecides ==
    /\ idle_only
    /\ \/ _consec_idle_count' # _consec_idle_count
       \/ _last_decision_ts' = 0 /\ _last_decision_ts # 0
       \/ Len(workers') > Len(workers)

C32_NoReturnToUnknown ==
    /\ [][ /\ current_state # UNKNOWN => current_state' # UNKNOWN
           /\ (just_detected' /\ current_state # UNKNOWN)
                 => /\ detection'.state # UNKNOWN
                    /\ detection'.confidence < MinConfidence
                          => /\ detection'.state = current_state
                             /\ detection'.confidence >= 300 ]_vars
    /\ [](\A i \in DOMAIN state_history :
             state_history[i].from_state # state_history[i].to_state)

(* C32: with a previous state, the classifier has just named it at the     *)
(* retention confidence, the winning score being lower.                    *)
C32_Witness ==
    /\ just_detected
    /\ current_state = ERROR
    /\ state_history # <<>>
    /\ detection.state = ERROR
    /\ detection.confidence = 300

(***************************************************************************)
(* Further properties of the recovery engine                               *)
(***************************************************************************)
(* C33: an execution that cancel_current_execution marked while in flight  *)
(* is filed in the history with the result CANCELLED when its worker ends; *)
(* and a call with no execution in flight returns False and changes        *)
(* nothing of the engine.                                                  *)
C33_CancellationIsKept ==
    [][ /\ (retry.marked /\ Len(workers') < Len(workers))
             => execution_history'[Len(execution_history')].result = CANCELLED
        /\ (retry'.cancel_returned = "False" /\ retry' # retry)
             => UNCHANGED engVars ]_vars

(***************************************************************************)
(* Further properties of the orchestrator                                  *)
(***************************************************************************)
(* This step hands the idle prompt to the engine's worker. *)
PromptDispatched ==
    /\ Len(workers') = Len(workers) + 1
    /\ workers'[Len(workers')].action_type = PROVIDE_INPUT

(* C34: the pending flag of a bootstrap falls in a step that dispatches    *)
(* the prompt, and in no other; a prompt dispatched while it is set clears *)
(* it; and an armed bootstrap eventually is no longer pending.             *)
C34_BootstrapCompletes ==
    /\ [][ /\ (_pending_bootstrap /\ ~_pending_bootstrap') => PromptDispatched
           /\ (_pending_bootstrap /\ PromptDispatched) => ~_pending_bootstrap' ]_vars
    /\ _pending_bootstrap ~> ~_pending_bootstrap

(* C34: the bootstrap armed at start-up has sent its clear and, in this   *)
(* very moment, the prompt that ended it.                                  *)
C34_Witness ==
    /\ ~_pending_bootstrap
    /\ boot_clears = 1
    /\ boot_prompts = 1
    /\ _last_idle_prompt_at = 0
    /\ Len(execution_history) = 1

(* C35: in every reachable state of the orchestrator the bootstrap-cleared *)
(* flag is set only while a bootstrap is pending.                          *)
C35_ClearedOnlyWhilePending == _bootstrap_cleared => _pending_bootstrap

(* C36: whenever the IDLE decision path dispatches a prompt, a clear was   *)
(* dispatched earlier in the same idle period, that is, since the last     *)
(* detection of a state other than IDLE.                                   *)
C36_ClearPrecedesPrompt ==
    [][ (PromptDispatched /\ workers'[Len(workers')].detected = IDLE)
            => clears_in_period >= 1 ]_vars

(***************************************************************************)
(* Further properties of the command channel                               *)
(***************************************************************************)
(* This step is taken by a reconnection thread. *)
ReconnectLoopStep == \E t \in ReconnectThreads : reconnect_threads'[t] # reconnect_threads[t]

(* This step is a connect() that opens a socket. *)
ConnectOpens == _state' = CONNECTED /\ (_state # CONNECTED \/ ~_socket)

(* C37: while a socket is held the state is CONNECTING or CONNECTED; no    *)
(* step of the reconnection loop takes a CONNECTED channel to RECONNECTING *)
(* or DISCONNECTED; and connect() opens a socket only when none is held.   *)
C37_StateAgreesWithTransport ==
    /\ [](_socket => _state \in {CONNECTING, CONNECTED})
    /\ [][ /\ (_state = CONNECTED /\ ReconnectLoopStep)
                => _state' \notin {RECONNECTING, DISCONNECTED}
           /\ (ConnectOpens /\ _socket') => ~_socket ]_vars

(***************************************************************************)
(* Further properties of the engine                                        *)
(***************************************************************************)
(* C38: the worker makes at most max_retries + 1 attempts; the step that   *)
(* clears the in-flight flag drops the current execution, ends the worker  *)
(* and files its execution last in the history, once, with a result and    *)
(* the end time of this moment; the history changes otherwise only by      *)
(* ageing; and an engine that is executing eventually is not.              *)
C38_ExecutionTerminates ==
    /\ [](retry.attempts <= max_retries + 1)
    /\ [][ /\ (executing /\ ~executing') =>
                  LET filed == execution_history'[Len(execution_history')]
                  IN  /\ current_execution' = NoExecution
                      /\ workers' = << >>
                      /\ ended' = Min(ended + 1, engine_config.execution_history_limit + 1)
                      /\ Len(execution_history')
                            = Min(Len(execution_history) + 1,
                                  engine_config.execution_history_limit)
                      /\ filed.action_type = current_execution.action_type
                      /\ filed.result \in {SUCCESS, FAILURE, TIMEOUT}
                      /\ filed.end_age = 0
           /\ (executing' = executing) =>
                  /\ ended' = ended
                  /\ execution_history' \in {execution_history, AgeHistory(execution_history)} ]_vars
    /\ executing ~> ~executing

(* C38: the retry loop has used all its attempts, the last one raised, and *)
(* the engine is free again with the execution filed as a failure.         *)
C38_Witness ==
    /\ ~executing
    /\ workers = << >>
    /\ retry.attempts = max_retries + 1
    /\ ~retry.succeeded
    /\ LastExecution.result = FAILURE
    /\ ended = 1

(***************************************************************************)
(* Further properties of the log tailer                                    *)
(***************************************************************************)
(* C39: what the line callbacks have received of the one file is the       *)
(* sequence of its lines, each once and in file order, and every line      *)
(* whose newline is written is eventually delivered, whether the line was  *)
(* written whole or in two parts.                                          *)
C39_EveryLineOnceInOrder ==
    /\ [](\A k \in DOMAIN delivered : delivered[k] = <<1, k>>)
    /\ \A n \in 1..MaxFileLines : (written[1] >= n) ~> (Deliveries(<<1, n>>) = 1)

(***************************************************************************)
(* Further properties of the selection                                     *)
(***************************************************************************)
(* The action types whose _execute_* method sends to the command channel;  *)
(* _execute_notification_action only logs.                                 *)
CommandActionTypes == {COMPACT, PROVIDE_INPUT, RESUME_INPUT, CLEAR_ERROR, RESTART_SESSION}

(* C40: the action dispatched for a detection of CONTEXT_PRESSURE,         *)
(* INPUT_WAITING or ERROR is one that sends to the command channel; the    *)
(* notification of a strategy is dispatched only when every action of the  *)
(* strategy that sends is gated in the context.                            *)
C40_SelectedActionSendsCommand ==
    (workers # << >> /\ retry.request.state \in recovery_states) =>
        /\ workers[1].action_type \in CommandActionTypes
        /\ workers[1].action_type = NOTIFY_USER =>
               \A k \in DOMAIN _strategies :
                   retry.request.state \in _strategies[k].target_states =>
                       \A j \in DOMAIN _strategies[k].actions :
                           _strategies[k].actions[j].action_type \in CommandActionTypes
                               => Gated(_strategies[k].actions[j], retry.request.ctx)

====
